---------------------------- MODULE Spec2Model ----------------------------
(***************************************************************************)
(* A model of the LF toolchain: the compiler's line parser                 *)
(* (lf-compile.py, parse_lf_source), the security screener                 *)
(* (lf-security.py, LFSecurity), and the runtime (lf-run.py,               *)
(* OptimizedLFRuntime: _merge_python_blocks, execute, execute_block and    *)
(* the per-language executors).                                            *)
(*                                                                         *)
(* Text is modelled as a sequence of one-character strings, so that the    *)
(* string operations of the source (strip, startswith, split, slicing,     *)
(* find, re.search) are computed and not assumed.                          *)
(*                                                                         *)
(* Five specifications share the variables:                                *)
(*   SpecParse   parse_lf_source on a source text                          *)
(*   SpecMerge   _merge_python_blocks on a list of code blocks             *)
(*   SpecPipeline  the parser followed by the merger                       *)
(*   SpecScreen  LFSecurity.validate_code called repeatedly                *)
(*   Spec        execute: the dispatcher loop, executors and cleanup       *)
(***************************************************************************)
EXTENDS Integers, Sequences, FiniteSets, TLC

(***************************************************************************)
(* Bounds of the model                                                     *)
(***************************************************************************)
MaxLines == 3
MaxBlocks == 3
MaxFragments == 3
MaxCalls == 2
MaxRepeats == 3
MaxItems == 2

(***************************************************************************)
(* Python string operations on sequences of characters                     *)
(***************************************************************************)
NL == "\n"

Min(S) == CHOOSE x \in S : \A y \in S : x <= y
Max(S) == CHOOSE x \in S : \A y \in S : x >= y

\* str.strip()/lstrip() without arguments remove these
Whitespace == {" ", "\n", "\t", "\r"}

\* \w of the re module, on the ASCII characters the model uses
WordChars ==
  {"a","b","c","d","e","f","g","h","i","j","k","l","m","n","o","p","q","r",
   "s","t","u","v","w","x","y","z","A","B","C","D","E","F","G","H","I","J",
   "K","L","M","N","O","P","Q","R","S","T","U","V","W","X","Y","Z","0","1",
   "2","3","4","5","6","7","8","9","_"}

Letters == WordChars \ {"0","1","2","3","4","5","6","7","8","9","_"}

\* len(s) - len(s.lstrip())
LeadWS(s) ==
  IF \A k \in 1..Len(s) : s[k] \in Whitespace
  THEN Len(s)
  ELSE Min({k \in 1..Len(s) : s[k] \notin Whitespace}) - 1

TrailWS(s) ==
  IF \A k \in 1..Len(s) : s[k] \in Whitespace
  THEN Len(s)
  ELSE Len(s) - Max({k \in 1..Len(s) : s[k] \notin Whitespace})

\* s[n:]
Drop(s, n) == SubSeq(s, n + 1, Len(s))

\* s[:n]
Take(s, n) == SubSeq(s, 1, IF n < Len(s) THEN n ELSE Len(s))

LStrip(s) == Drop(s, LeadWS(s))

Strip(s) == LET t == LStrip(s) IN SubSeq(t, 1, Len(t) - TrailWS(t))

StartsWith(s, p) == Len(p) <= Len(s) /\ SubSeq(s, 1, Len(p)) = p

EndsWith(s, p) == Len(p) <= Len(s) /\ SubSeq(s, Len(s) - Len(p) + 1, Len(s)) = p

\* p occurs in s at the 1-based position k
OccursAt(s, p, k) ==
  k >= 1 /\ k + Len(p) - 1 <= Len(s) /\ SubSeq(s, k, k + Len(p) - 1) = p

Contains(s, p) == \E k \in 1..(Len(s) + 1) : OccursAt(s, p, k)

\* s.find(p, start): 0-based index of the first occurrence at or after
\* start, -1 when there is none
Find(s, p, start) ==
  LET hits == {k \in (start + 1)..(Len(s) + 1) : OccursAt(s, p, k)}
  IN IF hits = {} THEN -1 ELSE Min(hits) - 1

\* s.split(c) for a one-character separator
RECURSIVE Split(_, _)
Split(s, c) ==
  LET k == Find(s, <<c>>, 0)
  IN IF k = -1 THEN <<s>> ELSE <<Take(s, k)>> \o Split(Drop(s, k + 1), c)

\* c.join(parts)
RECURSIVE Join(_, _)
Join(parts, c) ==
  IF Len(parts) = 0 THEN <<>>
  ELSE IF Len(parts) = 1 THEN parts[1]
  ELSE parts[1] \o <<c>> \o Join(Tail(parts), c)

(***************************************************************************)
(* The regular-expression shapes the source uses                           *)
(***************************************************************************)
IsWordAt(s, k) == k >= 1 /\ k <= Len(s) /\ s[k] \in WordChars

\* \b between s[k-1] and s[k]
BoundaryAt(s, k) == IsWordAt(s, k - 1) # IsWordAt(s, k)

\* re.search(r'\bLIT\b', s)
SearchWord(s, lit) ==
  \E k \in 1..Len(s) :
    OccursAt(s, lit, k) /\ BoundaryAt(s, k) /\ BoundaryAt(s, k + Len(lit))

\* first position at or after k that holds no white space (\s*)
SkipWS(s, k) ==
  IF \A m \in k..Len(s) : s[m] \in Whitespace
  THEN Len(s) + 1
  ELSE Min({m \in k..Len(s) : s[m] \notin Whitespace})

\* re.search(r'\bimport\s+MOD\b', s)
SearchImport(s, mod) ==
  \E k \in 1..Len(s) :
    /\ OccursAt(s, <<"i","m","p","o","r","t">>, k) /\ BoundaryAt(s, k)
    /\ IsWordAt(s, k + 6) = FALSE /\ k + 6 <= Len(s) /\ s[k + 6] \in Whitespace
    /\ LET m == SkipWS(s, k + 6)
       IN OccursAt(s, mod, m) /\ BoundaryAt(s, m + Len(mod))

\* re.search(r'LIT\s*\(', s); with wb, r'\bLIT\s*\('
SearchCall(s, lit, wb) ==
  \E k \in 1..Len(s) :
    /\ OccursAt(s, lit, k)
    /\ wb => BoundaryAt(s, k)
    /\ LET m == SkipWS(s, k + Len(lit)) IN m <= Len(s) /\ s[m] = "("

(***************************************************************************)
(* lf-compile.py: sanitize_input                                           *)
(***************************************************************************)
\* r'\bimport\b.*os\b'
SanImportOs(s) ==
  \E k \in 1..Len(s) : \E m \in 1..Len(s) :
    /\ OccursAt(s, <<"i","m","p","o","r","t">>, k) /\ BoundaryAt(s, k) /\ BoundaryAt(s, k + 6)
    /\ m >= k + 6 /\ OccursAt(s, <<"o","s">>, m) /\ BoundaryAt(s, m + 2)
    /\ \A n \in (k + 6)..(m - 1) : s[n] # NL

\* r'\bopen\b\s*\(\s*[^)]*\.\./'
SanOpenParent(s) ==
  \E k \in 1..Len(s) : \E m \in 1..Len(s) :
    /\ OccursAt(s, <<"o","p","e","n">>, k) /\ BoundaryAt(s, k) /\ BoundaryAt(s, k + 4)
    /\ LET p == SkipWS(s, k + 4)
       IN /\ p <= Len(s) /\ s[p] = "("
          /\ m > p /\ OccursAt(s, <<".",".","/">>, m)
          /\ \A n \in (p + 1)..(m - 1) : s[n] # ")"

\* r'\b__.*__\b'
SanDunder(s) ==
  \E k \in 1..Len(s) : \E m \in 1..Len(s) :
    /\ OccursAt(s, <<"_","_">>, k) /\ BoundaryAt(s, k)
    /\ m >= k + 2 /\ OccursAt(s, <<"_","_">>, m) /\ BoundaryAt(s, m + 2)
    /\ \A n \in (k + 2)..(m - 1) : s[n] # NL

\* r'\bos\b\.' and r'\bsys\b\.'
SanAttr(s, lit) ==
  \E k \in 1..Len(s) :
    OccursAt(s, lit \o <<".">>, k) /\ BoundaryAt(s, k)

\* The denylist, in the order of dangerous_patterns; the result is the
\* 1-based position of the first pattern that matches, 0 when none does.
\* (re.IGNORECASE: the texts of the model are lower case.)
SanitizeMatches(s) ==
  << SanImportOs(s),
     SearchWord(s, <<"e","x","e","c">>),
     SearchWord(s, <<"e","v","a","l">>),
     SanOpenParent(s),
     SanDunder(s),
     SearchWord(s, <<"i","m","p","o","r","t","l","i","b">>),
     SearchWord(s, <<"s","u","b","p","r","o","c","e","s","s">>),
     SanAttr(s, <<"o","s">>),
     SanAttr(s, <<"s","y","s">>),
     SearchWord(s, <<"s","h","u","t","i","l">>),
     SearchWord(s, <<"r","e","q","u","e","s","t","s">>) >>

FirstDangerous(text) ==
  LET ms == SanitizeMatches(text)
      hits == {k \in 1..Len(ms) : ms[k]}
  IN IF hits = {} THEN 0 ELSE Min(hits)

\* sanitize_input raises ValueError exactly when a pattern matches
sanitize_input(text) ==
  IF FirstDangerous(text) = 0
  THEN [raised |-> FALSE, text |-> text]
  ELSE [raised |-> TRUE, text |-> <<>>]

(***************************************************************************)
(* lf-security.py: LFSecurity                                              *)
(***************************************************************************)
SecurityLevels == {"LOW", "MEDIUM", "HIGH", "STRICT"}

\* LFSecurity.__init__: the default level
DefaultLevel == "HIGH"

\* One entry per regular expression of _get_dangerous_patterns, in dict
\* order: its category, its source text, and how it searches.
P(category, src, kind, lit) ==
  [category |-> category, src |-> src, kind |-> kind, lit |-> lit]

dangerous_patterns ==
  << P("imports", <<"\\","b","i","m","p","o","r","t","\\","s","+","o","s","\\","b">>, "import", <<"o","s">>),
     P("imports", <<"\\","b","i","m","p","o","r","t","\\","s","+","s","y","s","\\","b">>, "import", <<"s","y","s">>),
     P("imports", <<"\\","b","i","m","p","o","r","t","\\","s","+","s","u","b","p","r","o","c","e","s","s","\\","b">>, "import", <<"s","u","b","p","r","o","c","e","s","s">>),
     P("imports", <<"\\","b","i","m","p","o","r","t","\\","s","+","s","h","u","t","i","l","\\","b">>, "import", <<"s","h","u","t","i","l">>),
     P("imports", <<"\\","b","i","m","p","o","r","t","\\","s","+","r","e","q","u","e","s","t","s","\\","b">>, "import", <<"r","e","q","u","e","s","t","s">>),
     P("imports", <<"\\","b","i","m","p","o","r","t","\\","s","+","u","r","l","l","i","b","\\","b">>, "import", <<"u","r","l","l","i","b">>),
     P("imports", <<"\\","b","i","m","p","o","r","t","\\","s","+","s","o","c","k","e","t","\\","b">>, "import", <<"s","o","c","k","e","t">>),
     P("imports", <<"\\","b","i","m","p","o","r","t","\\","s","+","f","t","p","l","i","b","\\","b">>, "import", <<"f","t","p","l","i","b">>),
     P("imports", <<"\\","b","i","m","p","o","r","t","\\","s","+","t","e","l","n","e","t","l","i","b","\\","b">>, "import", <<"t","e","l","n","e","t","l","i","b">>),
     P("imports", <<"\\","b","i","m","p","o","r","t","\\","s","+","i","m","a","p","l","i","b","\\","b">>, "import", <<"i","m","a","p","l","i","b">>),
     P("imports", <<"\\","b","i","m","p","o","r","t","\\","s","+","p","o","p","l","i","b","\\","b">>, "import", <<"p","o","p","l","i","b">>),
     P("imports", <<"\\","b","i","m","p","o","r","t","l","i","b","\\","b">>, "word", <<"i","m","p","o","r","t","l","i","b">>),
     P("imports", <<"\\","b","_","_","i","m","p","o","r","t","_","_","\\","b">>, "word", <<"_","_","i","m","p","o","r","t","_","_">>),
     P("executions", <<"\\","b","e","x","e","c","\\","b">>, "word", <<"e","x","e","c">>),
     P("executions", <<"\\","b","e","v","a","l","\\","b">>, "word", <<"e","v","a","l">>),
     P("executions", <<"\\","b","c","o","m","p","i","l","e","\\","b">>, "word", <<"c","o","m","p","i","l","e">>),
     P("executions", <<"\\","b","e","x","e","c","f","i","l","e","\\","b">>, "word", <<"e","x","e","c","f","i","l","e">>),
     P("file_access", <<"\\","b","o","p","e","n","\\","s","*","\\","(">>, "wcall", <<"o","p","e","n">>),
     P("file_access", <<"\\","b","o","s","\\",".","p","a","t","h","\\","b">>, "word", <<"o","s",".","p","a","t","h">>),
     P("file_access", <<"\\","b","s","h","u","t","i","l","\\","b">>, "word", <<"s","h","u","t","i","l">>),
     P("file_access", <<"\\","b","t","e","m","p","f","i","l","e","\\","b">>, "word", <<"t","e","m","p","f","i","l","e">>),
     P("system_access", <<"\\","b","o","s","\\",".","s","y","s","t","e","m","\\","b">>, "word", <<"o","s",".","s","y","s","t","e","m">>),
     P("system_access", <<"\\","b","s","u","b","p","r","o","c","e","s","s","\\","b">>, "word", <<"s","u","b","p","r","o","c","e","s","s">>),
     P("system_access", <<"\\","b","p","l","a","t","f","o","r","m","\\","b">>, "word", <<"p","l","a","t","f","o","r","m">>),
     P("system_access", <<"\\","b","e","n","v","i","r","o","n","\\","b">>, "word", <<"e","n","v","i","r","o","n">>),
     P("network_access", <<"\\","b","s","o","c","k","e","t","\\","b">>, "word", <<"s","o","c","k","e","t">>),
     P("network_access", <<"\\","b","r","e","q","u","e","s","t","s","\\","b">>, "word", <<"r","e","q","u","e","s","t","s">>),
     P("network_access", <<"\\","b","u","r","l","l","i","b","\\","b">>, "word", <<"u","r","l","l","i","b">>),
     P("network_access", <<"\\","b","h","t","t","p","l","i","b","\\","b">>, "word", <<"h","t","t","p","l","i","b">>),
     P("network_access", <<"\\","b","h","t","t","p","\\",".","c","l","i","e","n","t","\\","b">>, "word", <<"h","t","t","p",".","c","l","i","e","n","t">>) >>

js_dangerous_patterns ==
  << P("javascript", <<"e","v","a","l","\\","s","*","\\","(">>, "call", <<"e","v","a","l">>),
     P("javascript", <<"F","u","n","c","t","i","o","n","\\","s","*","\\","(">>, "call", <<"F","u","n","c","t","i","o","n">>),
     P("javascript", <<"i","m","p","o","r","t","\\","(">>, "lit", <<"i","m","p","o","r","t","(">>),
     P("javascript", <<"X","M","L","H","t","t","p","R","e","q","u","e","s","t">>, "lit", <<"X","M","L","H","t","t","p","R","e","q","u","e","s","t">>),
     P("javascript", <<"f","e","t","c","h","\\","s","*","\\","(">>, "call", <<"f","e","t","c","h">>),
     P("javascript", <<"W","e","b","S","o","c","k","e","t">>, "lit", <<"W","e","b","S","o","c","k","e","t">>),
     P("javascript", <<"A","c","t","i","v","e","X","O","b","j","e","c","t">>, "lit", <<"A","c","t","i","v","e","X","O","b","j","e","c","t">>) >>

java_dangerous_patterns ==
  << P("java", <<"R","u","n","t","i","m","e","\\",".","g","e","t","R","u","n","t","i","m","e","\\","(","\\",")">>, "lit", <<"R","u","n","t","i","m","e",".","g","e","t","R","u","n","t","i","m","e","(",")">>),
     P("java", <<"P","r","o","c","e","s","s","B","u","i","l","d","e","r">>, "lit", <<"P","r","o","c","e","s","s","B","u","i","l","d","e","r">>),
     P("java", <<"F","i","l","e","I","n","p","u","t","S","t","r","e","a","m">>, "lit", <<"F","i","l","e","I","n","p","u","t","S","t","r","e","a","m">>),
     P("java", <<"F","i","l","e","O","u","t","p","u","t","S","t","r","e","a","m">>, "lit", <<"F","i","l","e","O","u","t","p","u","t","S","t","r","e","a","m">>),
     P("java", <<"U","R","L","\\","(">>, "lit", <<"U","R","L","(">>),
     P("java", <<"U","R","L","C","o","n","n","e","c","t","i","o","n">>, "lit", <<"U","R","L","C","o","n","n","e","c","t","i","o","n">>),
     P("java", <<"S","o","c","k","e","t","\\","(">>, "lit", <<"S","o","c","k","e","t","(">>),
     P("java", <<"S","e","r","v","e","r","S","o","c","k","e","t","\\","(">>, "lit", <<"S","e","r","v","e","r","S","o","c","k","e","t","(">>) >>

cpp_dangerous_patterns ==
  << P("cpp", <<"s","y","s","t","e","m","\\","s","*","\\","(">>, "call", <<"s","y","s","t","e","m">>),
     P("cpp", <<"e","x","e","c">>, "lit", <<"e","x","e","c">>),
     P("cpp", <<"p","o","p","e","n","\\","s","*","\\","(">>, "call", <<"p","o","p","e","n">>),
     P("cpp", <<"f","o","p","e","n","\\","s","*","\\","(">>, "call", <<"f","o","p","e","n">>),
     P("cpp", <<"f","r","e","o","p","e","n","\\","s","*","\\","(">>, "call", <<"f","r","e","o","p","e","n">>),
     P("cpp", <<"i","f","s","t","r","e","a","m">>, "lit", <<"i","f","s","t","r","e","a","m">>),
     P("cpp", <<"o","f","s","t","r","e","a","m">>, "lit", <<"o","f","s","t","r","e","a","m">>),
     P("cpp", <<"W","S","A","S","t","a","r","t","u","p">>, "lit", <<"W","S","A","S","t","a","r","t","u","p">>),
     P("cpp", <<"s","o","c","k","e","t","\\","s","*","\\","(">>, "call", <<"s","o","c","k","e","t">>) >>

php_dangerous_patterns ==
  << P("php", <<"e","v","a","l","\\","s","*","\\","(">>, "call", <<"e","v","a","l">>),
     P("php", <<"e","x","e","c","\\","s","*","\\","(">>, "call", <<"e","x","e","c">>),
     P("php", <<"s","y","s","t","e","m","\\","s","*","\\","(">>, "call", <<"s","y","s","t","e","m">>),
     P("php", <<"s","h","e","l","l","_","e","x","e","c","\\","s","*","\\","(">>, "call", <<"s","h","e","l","l","_","e","x","e","c">>),
     P("php", <<"p","a","s","s","t","h","r","u","\\","s","*","\\","(">>, "call", <<"p","a","s","s","t","h","r","u">>),
     P("php", <<"p","o","p","e","n","\\","s","*","\\","(">>, "call", <<"p","o","p","e","n">>),
     P("php", <<"f","o","p","e","n","\\","s","*","\\","(">>, "call", <<"f","o","p","e","n">>),
     P("php", <<"f","i","l","e","_","g","e","t","_","c","o","n","t","e","n","t","s","\\","s","*","\\","(">>, "call", <<"f","i","l","e","_","g","e","t","_","c","o","n","t","e","n","t","s">>),
     P("php", <<"f","i","l","e","_","p","u","t","_","c","o","n","t","e","n","t","s","\\","s","*","\\","(">>, "call", <<"f","i","l","e","_","p","u","t","_","c","o","n","t","e","n","t","s">>),
     P("php", <<"c","u","r","l","_","e","x","e","c","\\","s","*","\\","(">>, "call", <<"c","u","r","l","_","e","x","e","c">>) >>

rust_dangerous_patterns ==
  << P("rust", <<"u","n","s","a","f","e","\\","s","+","{">>, "unsafe", <<"u","n","s","a","f","e">>),
     P("rust", <<"s","t","d",":",":","p","r","o","c","e","s","s",":",":","C","o","m","m","a","n","d">>, "lit", <<"s","t","d",":",":","p","r","o","c","e","s","s",":",":","C","o","m","m","a","n","d">>),
     P("rust", <<"s","t","d",":",":","f","s",":",":">>, "lit", <<"s","t","d",":",":","f","s",":",":">>),
     P("rust", <<"s","t","d",":",":","n","e","t",":",":","T","c","p","S","t","r","e","a","m">>, "lit", <<"s","t","d",":",":","n","e","t",":",":","T","c","p","S","t","r","e","a","m">>),
     P("rust", <<"s","t","d",":",":","n","e","t",":",":","T","c","p","L","i","s","t","e","n","e","r">>, "lit", <<"s","t","d",":",":","n","e","t",":",":","T","c","p","L","i","s","t","e","n","e","r">>),
     P("rust", <<"l","i","b","c",":",":","s","y","s","t","e","m">>, "lit", <<"l","i","b","c",":",":","s","y","s","t","e","m">>) >>

\* re.search(pattern, s) for the entry p
PatternMatches(p, s) ==
  CASE p.kind = "word" -> SearchWord(s, p.lit)
    [] p.kind = "import" -> SearchImport(s, p.lit)
    [] p.kind = "wcall" -> SearchCall(s, p.lit, TRUE)
    [] p.kind = "call" -> SearchCall(s, p.lit, FALSE)
    [] p.kind = "lit" -> Contains(s, p.lit)
    [] p.kind = "unsafe" ->
         \E k \in 1..Len(s) :
           /\ OccursAt(s, p.lit, k)
           /\ k + 6 <= Len(s) /\ s[k + 6] \in Whitespace
           /\ LET m == SkipWS(s, k + 6) IN m <= Len(s) /\ s[m] = "{"

\* _get_severity_for_pattern: the risk lists are themselves searched, as
\* regular expressions, in the source text of the pattern
_get_severity_for_pattern(src) ==
  IF \/ SearchWord(src, <<"e","x","e","c">>) \/ SearchWord(src, <<"e","v","a","l">>)
     \/ SearchWord(src, <<"_","_","i","m","p","o","r","t","_","_">>) \/ SearchWord(src, <<"i","m","p","o","r","t","l","i","b">>)
  THEN "high"
  ELSE IF \/ SearchWord(src, <<"s","u","b","p","r","o","c","e","s","s">>) \/ SearchWord(src, <<"o","s",".","s","y","s","t","e","m">>)
          \/ SearchWord(src, <<"s","o","c","k","e","t">>) \/ SearchWord(src, <<"r","e","q","u","e","s","t","s">>)
  THEN "medium"
  ELSE "low"

_get_issue_type_for_pattern(src) ==
  IF Contains(src, <<"e","x","e","c">>) \/ Contains(src, <<"e","v","a","l">>) THEN "eval_usage"
  ELSE IF Contains(src, <<"i","m","p","o","r","t">>) THEN "dangerous_import"
  ELSE IF Contains(src, <<"o","p","e","n">>) \/ Contains(src, <<"s","h","u","t","i","l">>) THEN "file_access"
  ELSE IF Contains(src, <<"s","o","c","k","e","t">>) \/ Contains(src, <<"r","e","q","u","e","s","t","s">>) THEN "network_access"
  ELSE IF Contains(src, <<"s","y","s","t","e","m">>) \/ Contains(src, <<"s","u","b","p","r","o","c","e","s","s">>) THEN "system_access"
  ELSE "code_execution"

\* _find_line_numbers: the lines of the code the pattern matches, at most
\* the first ten
RECURSIVE LineHits(_, _, _)
LineHits(p, ls, k) ==
  IF k > Len(ls) THEN <<>>
  ELSE (IF PatternMatches(p, ls[k]) THEN <<k>> ELSE <<>>) \o LineHits(p, ls, k + 1)

_find_line_numbers(code, p) == Take(LineHits(p, Split(code, NL), 1), 10)

Issue(type, severity, src, category, line_numbers) ==
  [type |-> type, severity |-> severity, pattern |-> src,
   category |-> category, line_numbers |-> line_numbers]

\* The issues the patterns ps[k..] add for the code, in order
RECURSIVE PatternIssues(_, _, _, _)
PatternIssues(ps, k, code, lang) ==
  IF k > Len(ps) THEN <<>>
  ELSE LET p == ps[k]
           sev == CASE lang = "generic" -> _get_severity_for_pattern(p.src)
                    [] lang = "js" ->
                         IF Contains(p.src, <<"e","v","a","l">>) \/ Contains(p.src, <<"F","u","n","c","t","i","o","n">>)
                         THEN "high" ELSE "medium"
                    [] lang = "java" ->
                         IF Contains(p.src, <<"R","u","n","t","i","m","e">>) \/ Contains(p.src, <<"P","r","o","c","e","s","s","B","u","i","l","d","e","r">>)
                         THEN "high" ELSE "medium"
                    [] lang = "cpp" ->
                         IF Contains(p.src, <<"s","y","s","t","e","m">>) \/ Contains(p.src, <<"e","x","e","c">>)
                         THEN "high" ELSE "medium"
                    [] lang = "php" ->
                         IF Contains(p.src, <<"e","v","a","l">>) THEN "high" ELSE "medium"
                    [] lang = "rust" ->
                         IF Contains(p.src, <<"u","n","s","a","f","e">>) THEN "high" ELSE "medium"
           typ == IF lang = "generic" THEN _get_issue_type_for_pattern(p.src)
                  ELSE "code_execution"
       IN (IF PatternMatches(p, code)
           THEN <<Issue(typ, sev, p.src, p.category, _find_line_numbers(code, p))>>
           ELSE <<>>) \o PatternIssues(ps, k + 1, code, lang)

_check_dangerous_patterns(code) == PatternIssues(dangerous_patterns, 1, code, "generic")

\* _is_dangerous_import: the module list, matched by prefix
dangerous_modules ==
  << <<"o","s">>, <<"s","y","s">>, <<"s","u","b","p","r","o","c","e","s","s">>, <<"s","h","u","t","i","l">>, <<"s","o","c","k","e","t">>, <<"r","e","q","u","e","s","t","s">>,
     <<"u","r","l","l","i","b">>, <<"u","r","l","l","i","b","2">>, <<"h","t","t","p","l","i","b">>, <<"h","t","t","p",".","c","l","i","e","n","t">>, <<"f","t","p","l","i","b">>,
     <<"t","e","l","n","e","t","l","i","b">>, <<"i","m","a","p","l","i","b">>, <<"p","o","p","l","i","b">>, <<"p","i","c","k","l","e">>, <<"d","i","l","l">>, <<"m","a","r","s","h","a","l">> >>

_is_dangerous_import(module_name) ==
  \E k \in 1..Len(dangerous_modules) : StartsWith(module_name, dangerous_modules[k])

\* ast.parse is CPython's; the model reads the statement forms its texts
\* use, line by line.  A text is rejected (SyntaxError) when its first
\* statement is indented, when a line is indented deeper than the line
\* before it although that line opens no block and no bracket is open,
\* when a block header is not followed by a deeper line, or when its
\* brackets do not balance.
CountOf(s, cs) == Cardinality({k \in 1..Len(s) : s[k] \in cs})

BracketDepth(s) == CountOf(s, {"(", "[", "{"}) - CountOf(s, {")", "]", "}"})

RECURSIVE NonBlank(_)
NonBlank(ls) ==
  IF Len(ls) = 0 THEN <<>>
  ELSE (IF Strip(ls[1]) = <<>> \/ StartsWith(Strip(ls[1]), <<"#">>)
        THEN <<>> ELSE <<ls[1]>>) \o NonBlank(Tail(ls))

PySyntaxError(code) ==
  LET ls == NonBlank(Split(code, NL))
  IN \/ BracketDepth(code) # 0
     \/ Len(ls) > 0 /\ LeadWS(ls[1]) > 0
     \/ \E k \in 1..Len(ls) :
          /\ EndsWith(Strip(ls[k]), <<":">>)
          /\ k = Len(ls) \/ LeadWS(ls[k + 1]) <= LeadWS(ls[k])
     \/ \E k \in 1..(Len(ls) - 1) :
          /\ ~EndsWith(Strip(ls[k]), <<":">>)
          /\ LeadWS(ls[k + 1]) > LeadWS(ls[k])
          /\ BracketDepth(Join(SubSeq(ls, 1, k), NL)) = 0

\* the first word of s (up to white space or a comma)
FirstToken(s) ==
  LET ends == {k \in 1..Len(s) : s[k] \in Whitespace \/ s[k] = ","}
  IN IF ends = {} THEN s ELSE Take(s, Min(ends) - 1)

StripDots(s) ==
  IF \A k \in 1..Len(s) : s[k] = "." THEN <<>>
  ELSE Drop(s, Min({k \in 1..Len(s) : s[k] # "."}) - 1)

\* ast.Import: alias.name of each imported name
RECURSIVE ImportNames(_)
ImportNames(parts) ==
  IF Len(parts) = 0 THEN <<>>
  ELSE <<FirstToken(Strip(parts[1]))>> \o ImportNames(Tail(parts))

\* a call whose func is a bare Name: NAME( not reached through an attribute
BareCall(s, name) ==
  \E k \in 1..Len(s) :
    /\ OccursAt(s, name, k) /\ BoundaryAt(s, k)
    /\ k = 1 \/ s[k - 1] # "."
    /\ LET m == SkipWS(s, k + Len(name)) IN m <= Len(s) /\ s[m] = "("

PyIssue(type, name, category, ln) ==
  Issue(type, "high", name, category, <<ln>>)

\* the walk over the import statements; module = None (a relative import
\* that names no module) makes _is_dangerous_import raise AttributeError
RECURSIVE ImportIssues(_, _)
ImportIssues(names, ln) ==
  IF Len(names) = 0 THEN <<>>
  ELSE (IF _is_dangerous_import(names[1])
        THEN <<PyIssue("dangerous_import", names[1], "imports", ln)>>
        ELSE <<>>) \o ImportIssues(Tail(names), ln)

RECURSIVE WalkImports(_, _)
WalkImports(ls, k) ==
  IF k > Len(ls) THEN [raised |-> FALSE, issues |-> <<>>]
  ELSE LET t == Strip(ls[k])
           rest == WalkImports(ls, k + 1)
       IN IF StartsWith(t, <<"i","m","p","o","r","t"," ">>)
          THEN [raised |-> rest.raised,
                issues |-> ImportIssues(ImportNames(Split(Drop(t, 7), ",")), k)
                           \o rest.issues]
          ELSE IF StartsWith(t, <<"f","r","o","m"," ">>)
          THEN LET module == StripDots(FirstToken(Strip(Drop(t, 5))))
               IN IF module = <<>>
                  THEN [raised |-> TRUE, issues |-> <<>>]
                  ELSE [raised |-> rest.raised,
                        issues |-> (IF _is_dangerous_import(module)
                                    THEN <<PyIssue("dangerous_import", module, "imports", k)>>
                                    ELSE <<>>) \o rest.issues]
          ELSE rest

RECURSIVE WalkCalls(_, _)
WalkCalls(ls, k) ==
  IF k > Len(ls) THEN <<>>
  ELSE LET hit(name) == IF BareCall(ls[k], name)
                        THEN <<PyIssue("eval_usage", name, "executions", k)>>
                        ELSE <<>>
       IN hit(<<"e","x","e","c">>) \o hit(<<"e","v","a","l">>) \o hit(<<"c","o","m","p","i","l","e">>) \o WalkCalls(ls, k + 1)

\* _validate_python_code: the issues it appends, or the exception it lets
\* through (only SyntaxError is caught)
_validate_python_code(code) ==
  IF PySyntaxError(code)
  THEN [raised |-> FALSE,
        issues |-> <<Issue("code_execution", "medium", <<"s","y","n","t","a","x","_","e","r","r","o","r">>, "parsing", <<>>)>>]
  ELSE LET ls == Split(code, NL)
           imports == WalkImports(ls, 1)
       IN IF imports.raised
          THEN [raised |-> TRUE, issues |-> imports.issues]
          ELSE [raised |-> FALSE, issues |-> imports.issues \o WalkCalls(ls, 1)]

LanguagePatterns(language) ==
  CASE language = "js" -> js_dangerous_patterns
    [] language = "java" -> java_dangerous_patterns
    [] language = "cpp" -> cpp_dangerous_patterns
    [] language = "php" -> php_dangerous_patterns
    [] language = "rust" -> rust_dangerous_patterns
    [] OTHER -> <<>>

\* lines 93-105: the language-specific layer: the issues it appends, or
\* the exception it lets through
LanguageLayer(code, language) ==
  IF language = "py" THEN _validate_python_code(code)
  ELSE [raised |-> FALSE,
        issues |-> PatternIssues(LanguagePatterns(language), 1, code, language)]

\* lines 88 and 107-113: the list left in self.security_issues (the
\* generic issues, then those of the layer) and the record returned.  The
\* level is copied into the record and read nowhere else.
Report(level, language, generic, layer) ==
  [raised |-> layer.raised,
   security_issues |-> generic \o layer.issues,
   result |-> [is_valid |-> Len(generic \o layer.issues) = 0,
               issues |-> generic \o layer.issues,
               language |-> language,
               security_level |-> level,
               issue_count |-> Len(generic \o layer.issues)]]

\* validate_code(code, language) on a screener of the given level: whether
\* it raised, the list left in self.security_issues, and the record it
\* returns
validate_code(level, code, language) ==
  Report(level, language, _check_dangerous_patterns(code), LanguageLayer(code, language))

(***************************************************************************)
(* State                                                                   *)
(***************************************************************************)
VARIABLES
  \* parse_lf_source
  source,          \* source_code, the argument
  p_pc,            \* "idle", "start", "load", "loop", "done" (returned), "error" (raised)
  p_error,         \* what was raised: "none", "dangerous", "unbound", "screen", "quote", "module"
  lines,           \* sanitized_code.split('\n')
  i,               \* the loop index (0-based, as in the source)
  directives,      \* key -> list of {value, line}
  code_blocks,     \* list of {line, type, content}
  absorbed,        \* the physical lines appended to a multi-line unit so far
  checker_bound,   \* whether the local security_checker was assigned
  \* LFSecurity
  level,           \* self.level
  security_issues, \* self.security_issues
  s_calls,         \* the validate_code calls made so far: code, language, outcome and,
                   \* when the call returned, its result
  lists,           \* the list objects validate_code has made, by identity (1, 2, ...)
  \* _merge_python_blocks
  m_pc,            \* "idle", "loop", "done"
  m_in,            \* code_blocks, the argument
  m_i,             \* the loop index (0-based)
  merged_blocks,
  \* execute
  pc,              \* "idle", "start", "running", "exec" (inside an exec that does not
                   \* end), "cleanup", "done", "interrupted"
  blocks,          \* the merged blocks being dispatched
  idx,             \* how many blocks the for loop has taken
  variables,       \* self.variables (the names user code can bind)
  functions,       \* self.functions
  temp_files,      \* self.temp_files
  fs,              \* the temporary files that exist on disk
  created,         \* every temporary file the run created
  unlinked,        \* file -> number of times os.unlink removed it
  log,             \* what the run printed, as events
  last_env,        \* the environment the last successful exec left behind
  \* main of lf-compile.py and execute_package
  k_pc,            \* "idle", "lsf" (generate_lsf returned), "packed", "failed", "loaded"
  lsf_content,     \* what generate_lsf returned
  package,         \* the members of the .lfp archive
  \* execute_cpp on one cpp fragment
  x_pc,            \* "idle", "call", "returned"
  cpp_code,        \* code, the argument
  stdout,          \* what the fast path printed
  spawned,         \* the external programs started while the fragment ran
  \* _generate_cpp_program: the loop over self.variables, one entry
  d_pc,            \* "idle", "call", "returned"
  var_name,
  var_value,
  variable_declarations,
  \* the command-line tools
  c_pc,            \* "idle", "start", "exited"
  argv,            \* the tool, its action and the file it is given
  world,           \* what the tool will meet: which of its steps fail
  child_status,    \* the exit statuses of the tools lf_main started
  exit_status      \* the exit status of the command

parseVars == <<source, p_pc, p_error, lines, i, directives, code_blocks, absorbed, checker_bound>>
screenVars == <<level, security_issues, s_calls, lists>>
mergeVars == <<m_pc, m_in, m_i, merged_blocks>>
runVars == <<pc, blocks, idx, variables, functions, temp_files, fs, created, unlinked, log, last_env>>
packVars == <<k_pc, lsf_content, package>>
printfVars == <<x_pc, cpp_code, stdout, spawned>>
declVars == <<d_pc, var_name, var_value, variable_declarations>>
cliVars == <<c_pc, argv, world, child_status, exit_status>>
vars == <<parseVars, screenVars, mergeVars, runVars, packVars, printfVars, declVars, cliVars>>

(***************************************************************************)
(* lf-compile.py: parse_lf_source                                          *)
(***************************************************************************)
S_py == <<"p","y",".">>
S_comment == <<"/","/">>

\* the guest branches of the if/elif chain, in order: the prefix, the tag,
\* and whether the branch calls the screener
GuestPrefixes ==
  << [prefix |-> <<"c","p","p",".">>, type |-> "cpp", screened |-> TRUE],
     [prefix |-> <<"j","s",".">>, type |-> "js", screened |-> TRUE],
     [prefix |-> <<"j","a","v","a",".">>, type |-> "java", screened |-> FALSE],
     [prefix |-> <<"p","h","p",".">>, type |-> "php", screened |-> FALSE],
     [prefix |-> <<"r","u","s","t",".">>, type |-> "rust", screened |-> FALSE] >>

\* str.lower() on the ASCII letters
UpperCase == <<"A","B","C","D","E","F","G","H","I","J","K","L","M","N","O","P","Q","R","S","T","U","V","W","X","Y","Z">>
LowerCase == <<"a","b","c","d","e","f","g","h","i","j","k","l","m","n","o","p","q","r","s","t","u","v","w","x","y","z">>

Lower(s) ==
  [k \in 1..Len(s) |->
     IF \E n \in 1..26 : UpperCase[n] = s[k]
     THEN LowerCase[CHOOSE n \in 1..26 : UpperCase[n] = s[k]]
     ELSE s[k]]

\* the keys whose directives are kept
RecognizedKeys == {<<"p","y","t","h","o","n","_","i","m","p","o","r","t">>, <<"n","a","m","e">>, <<"a","u","t","h","o","r">>, <<"d","e","s","c","r","i","p","t","i","o","n">>}

\* re.match(r'^[a-zA-Z_][a-zA-Z0-9_.]*$', value)
IsModuleName(value) ==
  /\ Len(value) >= 1
  /\ value[1] \in Letters \cup {"_"}
  /\ \A k \in 1..Len(value) : value[k] \in WordChars \cup {"."}

Block(line, type, content) == [line |-> line, type |-> type, content |-> content]

\* the test that makes a py line open a multi-line unit
is_multiline_structure(content_stripped) ==
  \/ StartsWith(content_stripped, <<"d","e","f"," ">>)
  \/ StartsWith(content_stripped, <<"c","l","a","s","s"," ">>)
  \/ StartsWith(content_stripped, <<"i","f"," ">>)
  \/ StartsWith(content_stripped, <<"f","o","r"," ">>)
  \/ StartsWith(content_stripped, <<"w","h","i","l","e"," ">>)
  \/ StartsWith(content_stripped, <<"w","i","t","h"," ">>)
  \/ StartsWith(content_stripped, <<"t","r","y",":">>)
  \/ StartsWith(content_stripped, <<"@">>)
  \/ EndsWith(content_stripped, <<":">>) /\ ~StartsWith(content_stripped, <<"#">>)

\* whether the inner loop stops at next_line
UnitEndsAt(next_line, base_indent) ==
  LeadWS(next_line) <= base_indent /\ Strip(next_line) # <<>>

\* the inner while loop of the py branch: from line index j (0-based) on,
\* with the content gathered so far; gives the index it stops at, the
\* content and the physical lines it appended
RECURSIVE ScanUnit(_, _, _, _, _)
ScanUnit(ls, j, base_indent, full_content, taken) ==
  IF j >= Len(ls)
  THEN [j |-> j, content |-> full_content, taken |-> taken]
  ELSE LET next_line == ls[j + 1]
       IN IF Strip(next_line) = <<>> \/ StartsWith(Strip(next_line), S_comment)
          THEN ScanUnit(ls, j + 1, base_indent, full_content, taken)
          ELSE IF UnitEndsAt(next_line, base_indent)
          THEN [j |-> j, content |-> full_content, taken |-> taken]
          ELSE IF StartsWith(LStrip(next_line), S_py)
          THEN ScanUnit(ls, j + 1, base_indent,
                        full_content \o <<NL>> \o Drop(LStrip(next_line), 3),
                        taken \cup {j + 1})
          ELSE ScanUnit(ls, j + 1, base_indent,
                        full_content \o <<NL>> \o Drop(next_line, base_indent),
                        taken \cup {j + 1})

\* the loop index itself as a block's 'line' (0-based)
LineOfIndex(k) == k

\* the 'line' given to the block made at loop index k
LineOf(k) == k + 1

\* "if security_module:" followed by security_checker.validate_code(...):
\* security_module is assigned before the module is executed, so it is set
\* whether or not loading succeeded; security_checker only if it did.
\* "unbound": the call raises UnboundLocalError; "screen": validate_code
\* raised; "ok": the findings were printed as warnings, if any.
ScreenOutcome(v) ==
  [outcome |-> IF v.raised THEN "screen" ELSE "ok", issues |-> v.security_issues]

ScreenInParse(bound, lvl, content, language) ==
  IF ~bound THEN [outcome |-> "unbound", issues |-> <<>>]
  ELSE ScreenOutcome(validate_code(lvl, content, language))

Raise(kind) ==
  /\ p_pc' = "error"
  /\ p_error' = kind

\* line 53: sanitize_input, then split into lines
Sanitize ==
  /\ p_pc = "start"
  /\ LET r == sanitize_input(source)
     IN IF r.raised
        THEN Raise("dangerous") /\ UNCHANGED lines
        ELSE p_pc' = "load" /\ lines' = Split(r.text, NL) /\ UNCHANGED p_error
  /\ UNCHANGED <<source, i, directives, code_blocks, absorbed, checker_bound>>
  /\ UNCHANGED <<screenVars, mergeVars, runVars, packVars, printfVars, declVars, cliVars>>

\* lines 58-71: load lf-security.py from the working directory; a failure
\* is reported and parsing goes on
LoadSecurityModule ==
  /\ p_pc = "load"
  /\ \E found \in BOOLEAN :
       /\ checker_bound' = found
       /\ level' = DefaultLevel
       /\ security_issues' = <<>>
  /\ p_pc' = "loop"
  /\ UNCHANGED <<source, p_error, lines, i, directives, code_blocks, absorbed, s_calls, lists>>
  /\ UNCHANGED <<mergeVars, runVars, packVars, printfVars, declVars, cliVars>>

InLoop == p_pc = "loop" /\ i < Len(lines)

CurLine == Strip(lines[i + 1])
RawLine == lines[i + 1]

\* lines 78-80
SkipLine ==
  /\ InLoop
  /\ CurLine = <<>> \/ StartsWith(CurLine, S_comment)
  /\ i' = i + 1
  /\ UNCHANGED <<source, p_pc, p_error, lines, directives, code_blocks, absorbed, checker_bound>>
  /\ UNCHANGED <<screenVars, mergeVars, runVars, packVars, printfVars, declVars, cliVars>>

\* the value of a directive: [raised, value]
DirectiveValue(value) ==
  IF StartsWith(value, <<"\"">>) \/ StartsWith(value, <<"'">>)
  THEN LET end_quote == Find(value, <<value[1]>>, 1)
       IN IF end_quote # -1
          THEN [raised |-> FALSE, value |-> SubSeq(value, 2, end_quote)]
          ELSE [raised |-> TRUE, value |-> <<>>]
  ELSE LET comment_pos == Find(value, S_comment, 0)
       IN IF comment_pos # -1
          THEN [raised |-> FALSE, value |-> Strip(Take(value, comment_pos))]
          ELSE [raised |-> FALSE, value |-> Strip(value)]

\* directives.setdefault(directive, []).append(...)
AddDirective(ds, directive, entry) ==
  IF directive \in DOMAIN ds
  THEN [ds EXCEPT ![directive] = Append(@, entry)]
  ELSE [k \in DOMAIN ds \cup {directive} |-> IF k = directive THEN <<entry>> ELSE ds[k]]

\* lines 83-118
ParseDirective ==
  /\ InLoop
  /\ StartsWith(CurLine, <<"#">>)
  /\ LET rest == Drop(CurLine, 1)
         sp == Find(rest, <<" ">>, 0)
     IN IF sp = -1
        THEN i' = i + 1 /\ UNCHANGED <<p_pc, p_error, directives>>
        ELSE LET directive == Take(rest, sp)
                 dv == DirectiveValue(Drop(rest, sp + 1))
             IN IF dv.raised
                THEN Raise("quote") /\ UNCHANGED <<i, directives>>
                ELSE IF Lower(directive) \notin RecognizedKeys
                THEN i' = i + 1 /\ UNCHANGED <<p_pc, p_error, directives>>
                ELSE IF Lower(directive) = <<"p","y","t","h","o","n","_","i","m","p","o","r","t">> /\ ~IsModuleName(dv.value)
                THEN Raise("module") /\ UNCHANGED <<i, directives>>
                ELSE /\ directives' = AddDirective(directives, directive,
                                                   [value |-> dv.value, line |-> i + 1])
                     /\ i' = i + 1
                     /\ UNCHANGED <<p_pc, p_error>>
  /\ UNCHANGED <<source, lines, code_blocks, absorbed, checker_bound>>
  /\ UNCHANGED <<screenVars, mergeVars, runVars, packVars, printfVars, declVars, cliVars>>

IsCodeLine == InLoop /\ CurLine # <<>> /\ ~StartsWith(CurLine, S_comment) /\ ~StartsWith(CurLine, <<"#">>)

\* the guest branch that takes the line: 0 when none does
GuestBranch(raw_line) ==
  LET hits == {k \in 1..Len(GuestPrefixes) : StartsWith(LStrip(raw_line), GuestPrefixes[k].prefix)}
  IN IF hits = {} \/ StartsWith(LStrip(raw_line), S_py) THEN 0 ELSE Min(hits)

\* the end of a code branch: the block is appended and the loop goes on at
\* next_i, unless the screening (outcome s) raised
EmitBlock(s, type, content, next_i, taken) ==
  /\ IF s.outcome = "ok"
     THEN /\ code_blocks' = Append(code_blocks, Block(LineOf(i), type, content))
          /\ i' = next_i
          /\ absorbed' = absorbed \cup taken
          /\ UNCHANGED <<p_pc, p_error>>
     ELSE Raise(s.outcome) /\ UNCHANGED <<i, code_blocks, absorbed>>
  /\ security_issues' = s.issues

\* lines 124-138 and 216-257: a cpp., js., java., php. or rust. line
ParseGuest ==
  /\ IsCodeLine
  /\ GuestBranch(RawLine) # 0
  /\ EmitBlock(IF GuestPrefixes[GuestBranch(RawLine)].screened
               THEN ScreenInParse(checker_bound, level,
                                  Drop(LStrip(RawLine), Len(GuestPrefixes[GuestBranch(RawLine)].prefix)),
                                  GuestPrefixes[GuestBranch(RawLine)].type)
               ELSE [outcome |-> "ok", issues |-> security_issues],
               GuestPrefixes[GuestBranch(RawLine)].type,
               Drop(LStrip(RawLine), Len(GuestPrefixes[GuestBranch(RawLine)].prefix)),
               i + 1, {})
  /\ UNCHANGED <<source, lines, directives, checker_bound, level, s_calls, lists>>
  /\ UNCHANGED <<mergeVars, runVars, packVars, printfVars, declVars, cliVars>>

\* the unit a py. line with the given content stands for: the line alone,
\* or what the inner loop gathers
PythonUnit(content) ==
  IF is_multiline_structure(Strip(content))
  THEN ScanUnit(lines, i + 1, LeadWS(RawLine), content, {})
  ELSE [j |-> i + 1, content |-> content, taken |-> {}]

\* line 197, i = j, after a unit; i += 1 after a single line
EmitPython(multi, unit) ==
  EmitBlock(ScreenInParse(checker_bound, level, unit.content, "py"),
            "py", unit.content, IF multi THEN unit.j ELSE i + 1, unit.taken)

\* lines 140-214: a py. line, single or the head of a multi-line unit
ParsePython ==
  /\ IsCodeLine
  /\ StartsWith(LStrip(RawLine), S_py)
  /\ EmitPython(is_multiline_structure(Strip(Drop(LStrip(RawLine), 3))),
                PythonUnit(Drop(LStrip(RawLine), 3)))
  /\ UNCHANGED <<source, lines, directives, checker_bound, level, s_calls, lists>>
  /\ UNCHANGED <<mergeVars, runVars, packVars, printfVars, declVars, cliVars>>

\* lines 259-263: no branch takes the line; it is reported and skipped
Unparseable ==
  /\ IsCodeLine
  /\ ~StartsWith(LStrip(RawLine), S_py)
  /\ GuestBranch(RawLine) = 0
  /\ i' = i + 1
  /\ UNCHANGED <<source, p_pc, p_error, lines, directives, code_blocks, absorbed, checker_bound>>
  /\ UNCHANGED <<screenVars, mergeVars, runVars, packVars, printfVars, declVars, cliVars>>

\* lines 265-269
ParseReturn ==
  /\ p_pc = "loop"
  /\ i >= Len(lines)
  /\ p_pc' = "done"
  /\ UNCHANGED <<source, p_error, lines, i, directives, code_blocks, absorbed, checker_bound>>
  /\ UNCHANGED <<screenVars, mergeVars, runVars, packVars, printfVars, declVars, cliVars>>

(***************************************************************************)
(* lf-security.py: validate_code as an operation of one LFSecurity object  *)
(***************************************************************************)
\* a list that is emptied and filled again where it is
SameList(ls, content) ==
  IF ls = <<>> THEN <<content>> ELSE [ls EXCEPT ![Len(ls)] = content]

\* line 88, self.security_issues = []: a new list object, which the
\* appends of the call fill; the lists made by earlier calls stay
NewList(ls, content) == Append(ls, content)

\* self.security_issues = [] ... return {...}; an exception leaves the
\* list as far as it was filled.  The 'issues' of the returned dict is the
\* list object itself (issues_id); result is the dict as it was returned
RecordCall(code, language, v) ==
  /\ security_issues' = v.security_issues
  /\ lists' = NewList(lists, v.security_issues)
  /\ s_calls' = Append(s_calls,
                       IF v.raised
                       THEN [code |-> code, language |-> language, outcome |-> "raised"]
                       ELSE [code |-> code, language |-> language, outcome |-> "returned",
                             result |-> v.result,
                             issues_id |-> Len(NewList(lists, v.security_issues))])

ValidateCode(code, language) ==
  /\ p_pc = "idle" /\ m_pc = "idle" /\ pc = "idle"
  /\ RecordCall(code, language, validate_code(level, code, language))
  /\ UNCHANGED level
  /\ UNCHANGED <<parseVars, mergeVars, runVars, packVars, printfVars, declVars, cliVars>>

(***************************************************************************)
(* lf-run.py: _merge_python_blocks                                         *)
(***************************************************************************)
\* re.sub(r'\\bpy\\.(\\w+)', r'\\1', part): as the pattern is written (a raw
\* string with doubled backslashes) it matches the characters \bpy\ , any
\* one character, \ and a run of w, and puts \1 in their place.
CleanPrefixLit == <<"\\","b","p","y","\\">>

CleanMatchLen(s, k) ==
  IF /\ OccursAt(s, CleanPrefixLit, k)
     /\ k + 7 <= Len(s)
     /\ s[k + 5] # NL /\ s[k + 6] = "\\" /\ s[k + 7] = "w"
  THEN IF \A m \in (k + 7)..Len(s) : s[m] = "w"
       THEN Len(s) - k + 1
       ELSE Min({m \in (k + 7)..Len(s) : s[m] # "w"}) - k
  ELSE 0

RECURSIVE CleanPart(_)
CleanPart(s) ==
  LET hits == {k \in 1..Len(s) : CleanMatchLen(s, k) > 0}
  IN IF hits = {} THEN s
     ELSE LET k == Min(hits)
          IN Take(s, k - 1) \o <<"\\", "1">> \o CleanPart(Drop(s, k - 1 + CleanMatchLen(s, k)))

\* re.split(r'(".*?"|\'.*?\')', line): the quoted parts are kept as they are
RECURSIVE CleanLine(_)
CleanLine(s) ==
  LET opens == {k \in 1..Len(s) :
                  s[k] \in {"\"", "'"} /\ \E m \in (k + 1)..Len(s) : s[m] = s[k]}
  IN IF opens = {} THEN CleanPart(s)
     ELSE LET k == Min(opens)
              m == Min({n \in (k + 1)..Len(s) : s[n] = s[k]})
          IN CleanPart(Take(s, k - 1)) \o SubSeq(s, k, m) \o CleanLine(Drop(s, m))

RECURSIVE CleanLines(_)
CleanLines(ls) ==
  IF Len(ls) = 0 THEN <<>> ELSE <<CleanLine(ls[1])>> \o CleanLines(Tail(ls))

_clean_python_code(content) == Join(CleanLines(Split(content, NL)), NL)

is_block_start(content_stripped) ==
  \/ StartsWith(content_stripped, <<"d","e","f"," ">>)
  \/ StartsWith(content_stripped, <<"c","l","a","s","s"," ">>)
  \/ StartsWith(content_stripped, <<"i","f"," ">>)
  \/ StartsWith(content_stripped, <<"f","o","r"," ">>)
  \/ StartsWith(content_stripped, <<"w","h","i","l","e"," ">>)
  \/ StartsWith(content_stripped, <<"w","i","t","h"," ">>)
  \/ StartsWith(content_stripped, <<"t","r","y",":">>)
  \/ StartsWith(content_stripped, <<"t","r","y"," ">>)
  \/ StartsWith(content_stripped, <<"e","x","c","e","p","t"," ">>)
  \/ StartsWith(content_stripped, <<"e","l","i","f"," ">>)
  \/ StartsWith(content_stripped, <<"e","l","s","e",":">>)
  \/ StartsWith(content_stripped, <<"@">>)
  \/ EndsWith(content_stripped, <<":">>) /\ ~StartsWith(content_stripped, <<"#">>)

multiline_indicators == {<<",">>, <<"{">>, <<"[">>, <<"(">>, <<"\\">>}

_is_in_multiline_structure(content) ==
  LET ls == Split(content, NL)
      last_line == Strip(ls[Len(ls)])
  IN \E ind \in multiline_indicators : EndsWith(last_line, ind)

_is_start_of_multiline_structure(content) ==
  IF Contains(content, <<"=">>)
  THEN LET right_side == Strip(Drop(content, Find(content, <<"=">>, 0) + 1))
       IN \/ StartsWith(right_side, <<"[">>) /\ ~EndsWith(right_side, <<"]">>)
          \/ StartsWith(right_side, <<"{">>) /\ ~EndsWith(right_side, <<"}">>)
          \/ StartsWith(right_side, <<"(">>) /\ ~EndsWith(right_side, <<")">>)
  ELSE FALSE

\* line 196-197: the flag the inner loop carries from one block to the next
NextInMultiline(in_multiline_structure, full_content) ==
  IF ~in_multiline_structure
  THEN _is_in_multiline_structure(full_content)
  ELSE in_multiline_structure

\* lines 200-205: whether the inner loop breaks at the next block
BlockEnds(next_content, next_content_cleaned, base_indent, in_multiline_structure) ==
  /\ LeadWS(next_content) <= base_indent
  /\ Strip(next_content_cleaned) # <<>>
  /\ ~StartsWith(Strip(next_content_cleaned), <<"#">>)
  /\ ~StartsWith(Strip(next_content_cleaned), S_comment)
  /\ ~in_multiline_structure

\* line 190: the inner loop looks only at py blocks
LookaheadContinues(bs, j) == j < Len(bs) /\ bs[j + 1].type = "py"

\* the inner while loop: from block index j (0-based) on; gives the index
\* it stops at and the content
RECURSIVE MergeScan(_, _, _, _, _)
MergeScan(bs, j, base_indent, full_content, in_multiline_structure) ==
  IF ~LookaheadContinues(bs, j)
  THEN [j |-> j, content |-> full_content]
  ELSE LET next_content == bs[j + 1].content
           cleaned == _clean_python_code(next_content)
           flag == NextInMultiline(in_multiline_structure, full_content)
       IN IF BlockEnds(next_content, cleaned, base_indent, flag)
          THEN [j |-> j, content |-> full_content]
          ELSE MergeScan(bs, j + 1, base_indent, full_content \o <<NL>> \o cleaned, flag)

MInLoop == m_pc = "loop" /\ m_i < Len(m_in)

MBlock == m_in[m_i + 1]

StartsUnit(content) ==
  LET content_stripped == Strip(_clean_python_code(content))
  IN is_block_start(content_stripped) \/ _is_start_of_multiline_structure(content_stripped)

\* lines 181-215: a py block that starts a unit
MergeUnit ==
  /\ MInLoop
  /\ MBlock.type = "py"
  /\ StartsUnit(MBlock.content)
  /\ LET cleaned_content == _clean_python_code(MBlock.content)
         unit == MergeScan(m_in, m_i + 1, LeadWS(MBlock.content), cleaned_content,
                           _is_start_of_multiline_structure(Strip(cleaned_content)))
     IN /\ merged_blocks' = Append(merged_blocks, Block(MBlock.line, "py", unit.content))
        /\ m_i' = unit.j
  /\ UNCHANGED <<m_pc, m_in>>
  /\ UNCHANGED <<parseVars, screenVars, runVars, packVars, printfVars, declVars, cliVars>>

\* lines 216-222: any other py block
MergeSingle ==
  /\ MInLoop
  /\ MBlock.type = "py"
  /\ ~StartsUnit(MBlock.content)
  /\ merged_blocks' = Append(merged_blocks,
                             Block(MBlock.line, "py", _clean_python_code(MBlock.content)))
  /\ m_i' = m_i + 1
  /\ UNCHANGED <<m_pc, m_in>>
  /\ UNCHANGED <<parseVars, screenVars, runVars, packVars, printfVars, declVars, cliVars>>

\* lines 223-225: a guest block is passed through
MergeGuest ==
  /\ MInLoop
  /\ MBlock.type # "py"
  /\ merged_blocks' = Append(merged_blocks, MBlock)
  /\ m_i' = m_i + 1
  /\ UNCHANGED <<m_pc, m_in>>
  /\ UNCHANGED <<parseVars, screenVars, runVars, packVars, printfVars, declVars, cliVars>>

\* lines 227-228
MergeReturn ==
  /\ m_pc = "loop"
  /\ m_i >= Len(m_in)
  /\ m_pc' = "done"
  /\ UNCHANGED <<m_in, m_i, merged_blocks>>
  /\ UNCHANGED <<parseVars, screenVars, runVars, packVars, printfVars, declVars, cliVars>>

(***************************************************************************)
(* lf-run.py: execute, execute_block and the executors                     *)
(***************************************************************************)
\* The values user code binds: plain data and callables
\* (all written as strings: "1" and "2" stand for two different data values)
Data == {"1", "2"}
Callables == {"f"}
Values == Data \cup Callables
UserNames == {"n"}

callable(v) == v \in Callables

\* _initialize_globals: the entries of self.variables that are not in the
\* exclusion list of execute_python (the others are the builtins)
InitialGlobals == [k \in {"global_start_time", "cpp"} |->
                     IF k = "cpp" THEN "self" ELSE "t0"]

\* d1.update(d2)
Update(d1, d2) ==
  [k \in DOMAIN d1 \cup DOMAIN d2 |-> IF k \in DOMAIN d2 THEN d2[k] ELSE d1[k]]

EmptyMap == [k \in {} |-> 0]

\* lines 700-702: env.update(self.variables); env.update(self.functions)
\* (the names of the exclusion list left out)
PythonEnv(vs, fs_) == Update(vs, fs_)

\* lines 709-719: the loop that writes env back after exec
CommitVariables(vs, env) ==
  Update(vs, [k \in {n \in DOMAIN env : ~callable(env[n])} |-> env[k]])

CommitFunctions(fs_, env) ==
  Update(fs_, [k \in {n \in DOMAIN env : callable(env[n])} |-> env[k]])

\* _evaluate_expression_simple, lines 588-591, and the marshalling loops of
\* the executors: a name is passed to a guest when self.variables holds it
\* with a value that is not callable
GuestSees(vs, name) ==
  IF name \in DOMAIN vs /\ ~callable(vs[name]) THEN vs[name] ELSE "none"

\* the block kinds of a program: the type tag and, for cpp, whether
\* execute_cpp takes the printf fast path
BlockKinds ==
  { [type |-> "py", fast |-> FALSE], [type |-> "cpp", fast |-> TRUE],
    [type |-> "cpp", fast |-> FALSE], [type |-> "js", fast |-> FALSE],
    [type |-> "java", fast |-> FALSE], [type |-> "php", fast |-> FALSE],
    [type |-> "rust", fast |-> FALSE], [type |-> "lua", fast |-> FALSE] }

\* what one call of a general-path executor can run into
\*   create_error    NamedTemporaryFile raises
\*   no_toolchain    subprocess.run raises FileNotFoundError
\*   compile_timeout, run_timeout   subprocess.run raises TimeoutExpired
\*   compile_fail    the compiler returns non-zero
\*   ok, stderr      the program ran (stderr: with output on stderr)
CompiledOutcomes ==
  {"create_error", "no_toolchain", "compile_timeout", "compile_fail", "ok", "stderr", "run_timeout"}
InterpretedOutcomes == {"create_error", "no_toolchain", "run_timeout", "ok", "stderr"}

\* the outcomes after which the executor reaches its "Track temporary
\* files for cleanup" lines: every path that leaves the try block by its end
ReachesTracking(outcome) == outcome \in {"compile_fail", "ok", "stderr"}

\* the outcomes that are failures of the fragment
Failures ==
  {"raised", "create_error", "no_toolchain", "compile_timeout", "compile_fail", "run_timeout"}

File(k, kind) == [frag |-> k, kind |-> kind]

Running == pc = "running" /\ idx < Len(blocks)
Cur == blocks[idx + 1]

\* a dispatcher that lets a failure of the fragment leave the for loop
DispatchFatal(outcome) ==
  /\ idx' = idx + 1
  /\ log' = Append(log, [ev |-> "block", k |-> idx + 1, line |-> Cur.line, outcome |-> outcome])
  /\ pc' = IF outcome \in Failures THEN "interrupted" ELSE pc
  /\ UNCHANGED blocks

\* execute_block lines 296-298 and the for loop's step
Dispatch(outcome) ==
  /\ idx' = idx + 1
  /\ log' = Append(log, [ev |-> "block", k |-> idx + 1, line |-> Cur.line, outcome |-> outcome])
  /\ UNCHANGED <<pc, blocks>>

\* lines 81-91: _initialize_globals, _load_modules, _merge_python_blocks
Start ==
  /\ pc = "start"
  /\ pc' = "running"
  /\ variables' = Update(variables, InitialGlobals)
  /\ UNCHANGED <<blocks, idx, functions, temp_files, fs, created, unlinked, log, last_env>>
  /\ UNCHANGED <<parseVars, screenVars, mergeVars, packVars, printfVars, declVars, cliVars>>

\* execute_python under execute_block: exec binds the names of asg; when it
\* raises, the exception is re-raised and execute_block reports it
ExecutePython ==
  /\ Running
  /\ Cur.type = "py"
  /\ \E assigned \in SUBSET UserNames : \E asg \in [assigned -> Values] : \E ok \in BOOLEAN :
       LET env == Update(PythonEnv(variables, functions), asg)
       IN IF ok
          THEN /\ variables' = CommitVariables(variables, env)
               /\ functions' = CommitFunctions(functions, env)
               /\ last_env' = env
               /\ Dispatch("ok")
          ELSE /\ UNCHANGED <<variables, functions, last_env>>
               /\ Dispatch("raised")
  /\ UNCHANGED <<temp_files, fs, created, unlinked>>
  /\ UNCHANGED <<parseVars, screenVars, mergeVars, packVars, printfVars, declVars, cliVars>>

\* execute_cpp, lines 334-347: the printf fast path; an exception of
\* _parse_printf_ultimate reaches execute_block
ExecuteCppFast ==
  /\ Running
  /\ Cur.type = "cpp" /\ Cur.fast
  /\ \E outcome \in {"ok", "raised"} : Dispatch(outcome)
  /\ UNCHANGED <<variables, functions, temp_files, fs, created, unlinked, last_env>>
  /\ UNCHANGED <<parseVars, screenVars, mergeVars, packVars, printfVars, declVars, cliVars>>

\* the files a compiled-language executor leaves on disk, and the paths it
\* appends to self.temp_files
\* _execute_cpp_full: the .cpp file always, the executable once compiled
CppOnDisk(k, outcome) ==
  IF outcome = "create_error" THEN {}
  ELSE IF outcome \in {"ok", "stderr", "run_timeout"} THEN {File(k, "cpp"), File(k, "out")}
  ELSE {File(k, "cpp")}

\* lines 403-407
CppTracked(k, outcome) ==
  IF ReachesTracking(outcome) THEN <<File(k, "cpp"), File(k, "out")>> ELSE <<>>

ExecuteCppFull ==
  /\ Running
  /\ Cur.type = "cpp" /\ ~Cur.fast
  /\ \E outcome \in CompiledOutcomes :
       /\ fs' = fs \cup CppOnDisk(idx + 1, outcome)
       /\ created' = created \cup CppOnDisk(idx + 1, outcome)
       /\ temp_files' = temp_files \o CppTracked(idx + 1, outcome)
       /\ Dispatch(outcome)
  /\ UNCHANGED <<variables, functions, unlinked, last_env>>
  /\ UNCHANGED <<parseVars, screenVars, mergeVars, packVars, printfVars, declVars, cliVars>>

\* execute_javascript and execute_php: one script file
ScriptOnDisk(k, kind, outcome) ==
  IF outcome = "create_error" THEN {} ELSE {File(k, kind)}

\* lines 767-769 and 876-878
ScriptTracked(k, kind, outcome) ==
  IF ReachesTracking(outcome) THEN <<File(k, kind)>> ELSE <<>>

ExecuteJavaScript ==
  /\ Running
  /\ Cur.type = "js"
  /\ \E outcome \in InterpretedOutcomes :
       /\ fs' = fs \cup ScriptOnDisk(idx + 1, "js", outcome)
       /\ created' = created \cup ScriptOnDisk(idx + 1, "js", outcome)
       /\ temp_files' = temp_files \o ScriptTracked(idx + 1, "js", outcome)
       /\ Dispatch(outcome)
  /\ UNCHANGED <<variables, functions, unlinked, last_env>>
  /\ UNCHANGED <<parseVars, screenVars, mergeVars, packVars, printfVars, declVars, cliVars>>

ExecutePhp ==
  /\ Running
  /\ Cur.type = "php"
  /\ \E outcome \in InterpretedOutcomes :
       /\ fs' = fs \cup ScriptOnDisk(idx + 1, "php", outcome)
       /\ created' = created \cup ScriptOnDisk(idx + 1, "php", outcome)
       /\ temp_files' = temp_files \o ScriptTracked(idx + 1, "php", outcome)
       /\ Dispatch(outcome)
  /\ UNCHANGED <<variables, functions, unlinked, last_env>>
  /\ UNCHANGED <<parseVars, screenVars, mergeVars, packVars, printfVars, declVars, cliVars>>

\* execute_java: the .java file always, the .class file once compiled
JavaOnDisk(k, outcome) ==
  IF outcome = "create_error" THEN {}
  ELSE IF outcome \in {"ok", "stderr", "run_timeout"} THEN {File(k, "java"), File(k, "class")}
  ELSE {File(k, "java")}

\* lines 837-841: the class file is tracked only if it was compiled
JavaTracked(k, outcome) ==
  IF ~ReachesTracking(outcome) THEN <<>>
  ELSE IF outcome = "compile_fail" THEN <<File(k, "java")>>
  ELSE <<File(k, "java"), File(k, "class")>>

ExecuteJava ==
  /\ Running
  /\ Cur.type = "java"
  /\ \E outcome \in CompiledOutcomes :
       /\ fs' = fs \cup JavaOnDisk(idx + 1, outcome)
       /\ created' = created \cup JavaOnDisk(idx + 1, outcome)
       /\ temp_files' = temp_files \o JavaTracked(idx + 1, outcome)
       /\ Dispatch(outcome)
  /\ UNCHANGED <<variables, functions, unlinked, last_env>>
  /\ UNCHANGED <<parseVars, screenVars, mergeVars, packVars, printfVars, declVars, cliVars>>

\* execute_rust: everything lives in a TemporaryDirectory that the with
\* statement removes on every way out
ExecuteRust ==
  /\ Running
  /\ Cur.type = "rust"
  /\ \E outcome \in CompiledOutcomes :
       /\ created' = created \cup (IF outcome = "create_error" THEN {} ELSE {File(idx + 1, "rs")})
       /\ Dispatch(outcome)
  /\ UNCHANGED <<variables, functions, temp_files, fs, unlinked, last_env>>
  /\ UNCHANGED <<parseVars, screenVars, mergeVars, packVars, printfVars, declVars, cliVars>>

\* execute_block lines 318-319: a type no branch knows is reported
ExecuteUnknown ==
  /\ Running
  /\ Cur.type \notin {"py", "cpp", "js", "java", "php", "rust"}
  /\ Dispatch("unknown")
  /\ UNCHANGED <<variables, functions, temp_files, fs, created, unlinked, last_env>>
  /\ UNCHANGED <<parseVars, screenVars, mergeVars, packVars, printfVars, declVars, cliVars>>

\* KeyboardInterrupt while block idx+1 runs: it is no Exception, so neither
\* the executor nor execute_block catches it and it leaves execute
UserInterrupt ==
  /\ Running
  /\ pc' = "interrupted"
  /\ idx' = idx + 1
  /\ log' = Append(log, [ev |-> "block", k |-> idx + 1, line |-> Cur.line, outcome |-> "interrupt"])
  /\ \E on_disk \in
         (IF Cur.type \in {"js", "java", "php"} \/ (Cur.type = "cpp" /\ ~Cur.fast)
          THEN {{}, {File(idx + 1, Cur.type)}} ELSE {{}}) :
       /\ fs' = fs \cup on_disk
       /\ created' = created \cup on_disk
  /\ UNCHANGED <<blocks, variables, functions, temp_files, unlinked, last_env>>
  /\ UNCHANGED <<parseVars, screenVars, mergeVars, packVars, printfVars, declVars, cliVars>>

\* lines 97-105: the end-of-run summary
Summary ==
  /\ pc = "running"
  /\ idx >= Len(blocks)
  /\ pc' = "cleanup"
  /\ log' = Append(log, [ev |-> "summary", k |-> 0, line |-> 0, outcome |-> "ok"])
  /\ UNCHANGED <<blocks, idx, variables, functions, temp_files, fs, created, unlinked, last_env>>
  /\ UNCHANGED <<parseVars, screenVars, mergeVars, packVars, printfVars, declVars, cliVars>>

\* _cleanup_temp_files: unlink every listed path that exists, in order
RECURSIVE CleanupFrom(_, _, _)
CleanupFrom(paths, disk, counts) ==
  IF Len(paths) = 0 THEN [fs |-> disk, unlinked |-> counts]
  ELSE IF paths[1] \in disk
  THEN CleanupFrom(Tail(paths), disk \ {paths[1]},
                   Update(counts, [f \in {paths[1]} |->
                                     IF f \in DOMAIN counts THEN counts[f] + 1 ELSE 1]))
  ELSE CleanupFrom(Tail(paths), disk, counts)

\* line 108
Cleanup ==
  /\ pc = "cleanup"
  /\ LET r == CleanupFrom(temp_files, fs, unlinked)
     IN fs' = r.fs /\ unlinked' = r.unlinked
  /\ temp_files' = <<>>
  /\ pc' = "done"
  /\ UNCHANGED <<blocks, idx, variables, functions, created, log, last_env>>
  /\ UNCHANGED <<parseVars, screenVars, mergeVars, packVars, printfVars, declVars, cliVars>>

(***************************************************************************)
(* lf-compile.py: generate_lsf and create_package;                         *)
(* lf-run.py: execute_package                                              *)
(***************************************************************************)
\* hashlib.sha256(source_code.encode()).hexdigest()[:16], kept symbolic
source_hash(text) == <<"sha256", text>>

\* lines 265-269: what parse_lf_source returns
parsed_data ==
  [directives |-> directives, code_blocks |-> code_blocks, source_hash |-> source_hash(source)]

\* generate_lsf (the metadata that depend on the path of the file left out)
generate_lsf(data) ==
  [format_version |-> "LSF-2.0",
   metadata |-> [compiler |-> "lf-compile-optimized-v2", security_level |-> "enhanced"],
   program |-> data]

\* json.dumps of one character of a str (ensure_ascii=False)
EscapeNothing(c) == <<c>>

EscapeChar(c) ==
  IF c = "\"" THEN <<"\\", "\"">>
  ELSE IF c = "\\" THEN <<"\\", "\\">>
  ELSE IF c = NL THEN <<"\\", "n">>
  ELSE <<c>>

\* json.dumps of a str: the characters between the quotes
RECURSIVE JsonString(_)
JsonString(s) == IF s = <<>> THEN <<>> ELSE EscapeChar(Head(s)) \o JsonString(Tail(s))

\* json.loads of the characters of a string token: a quote ends the token
RECURSIVE JsonText(_)
JsonText(t) ==
  IF t = <<>> \/ Head(t) = "\"" THEN <<>>
  ELSE IF Head(t) = "\\" /\ Len(t) >= 2
       THEN <<IF t[2] = "n" THEN NL ELSE t[2]>> \o JsonText(Drop(t, 2))
       ELSE <<Head(t)>> \o JsonText(Tail(t))

\* a dict with str keys, each key and each entry converted
MapKeys(d, key(_), entry(_)) ==
  [k2 \in {key(k) : k \in DOMAIN d} |-> entry(d[CHOOSE k \in DOMAIN d : key(k) = k2])]

\* the program of an LSF document with every str of it converted by str
ConvertProgram(program, str(_)) ==
  [directives |->
     MapKeys(program.directives, str,
             LAMBDA es : [n \in 1..Len(es) |-> [value |-> str(es[n].value), line |-> es[n].line]]),
   code_blocks |->
     [n \in 1..Len(program.code_blocks) |->
        [line |-> program.code_blocks[n].line, type |-> program.code_blocks[n].type,
         content |-> str(program.code_blocks[n].content)]],
   source_hash |-> program.source_hash]

\* json.dump(lsf_content, f, indent=2, ensure_ascii=False)
json_dumps(lsf) == [lsf EXCEPT !.program = ConvertProgram(@, JsonString)]

\* json.loads(lsf_content)
json_loads(doc) == [doc EXCEPT !.program = ConvertProgram(@, JsonText)]

\* the languages of create_package, in the order of lines 342-396, with
\* the names of their files
PackageLanguages ==
  << [type |-> "cpp", name |-> <<"c","o","d","e",".","c">>], [type |-> "py", name |-> <<"c","o","d","e",".","p","y">>],
     [type |-> "js", name |-> <<"c","o","d","e",".","j","s">>], [type |-> "java", name |-> <<"c","o","d","e",".","j","a","v","a">>],
     [type |-> "php", name |-> <<"c","o","d","e",".","p","h","p">>], [type |-> "rust", name |-> <<"c","o","d","e",".","r","s">>] >>

BlocksOf(bs, type) == SelectSeq(bs, LAMBDA b : b.type = type)

\* '\n'.join([block['content'] for block in c_files])
JoinedContent(bs) == Join([n \in 1..Len(bs) |-> bs[n].content], NL)

\* lines 344-350: the file of one language, content being what
\* sanitize_input made of the joined contents
LanguageFile(own, name, content) ==
  IF own = <<>> THEN [raised |-> FALSE, files |-> <<>>]
  ELSE IF content.raised THEN [raised |-> TRUE, files |-> <<>>]
  ELSE [raised |-> FALSE, files |-> <<[name |-> name, content |-> content.text]>>]

\* lines 340-396: what each language adds to source_files
LanguageFiles(bs) ==
  [k \in 1..Len(PackageLanguages) |->
     LanguageFile(BlocksOf(bs, PackageLanguages[k].type), PackageLanguages[k].name,
                  sanitize_input(JoinedContent(BlocksOf(bs, PackageLanguages[k].type))))]

RECURSIVE Concat(_)
Concat(seqs) == IF seqs = <<>> THEN <<>> ELSE Head(seqs).files \o Concat(Tail(seqs))

\* the type tag of a block as text
TypeText(type) ==
  CASE type = "cpp" -> <<"c","p","p">> [] type = "py" -> <<"p","y">> [] type = "js" -> <<"j","s">>
    [] type = "java" -> <<"j","a","v","a">> [] type = "php" -> <<"p","h","p">> [] type = "rust" -> <<"r","u","s","t">>

\* 'code.' followed by the type tag, for every type
FileOfType(type) == <<"c","o","d","e",".">> \o TypeText(type)

\* line 408: the 'file' of an execution_order entry
FileOf(type) ==
  <<"c","o","d","e",".">> \o (IF type \notin {"cpp", "rust"} THEN TypeText(type)
                ELSE IF type = "cpp" THEN <<"c">> ELSE <<"r","s">>)

\* line 407: name.split('.')[-1]
FileType(name) == LET parts == Split(name, ".") IN parts[Len(parts)]

\* lines 399-414: the manifest of a package with the files source_files
Manifest(data, source_files) ==
  [format_version |-> "LF-Package-2.0",
   metadata |-> [compiler |-> "lf-compile-optimized-v2", source_hash |-> data.source_hash,
                 security_level |-> "enhanced"],
   files |-> [n \in 1..Len(source_files) |->
                [name |-> source_files[n].name, type |-> FileType(source_files[n].name),
                 size |-> Len(source_files[n].content)]],
   execution_order |->
     [n \in 1..Len(data.code_blocks) |->
        [type |-> data.code_blocks[n].type, file |-> FileOf(data.code_blocks[n].type),
         line |-> data.code_blocks[n].line]]]

\* lines 311-327: the manifest of the minimal package
MinimalManifest(data) ==
  [format_version |-> "LF-Package-2.0",
   metadata |-> [compiler |-> "lf-compile-optimized", source_hash |-> data.source_hash,
                 multifile_disabled |-> TRUE, security_level |-> "enhanced"],
   files |-> <<>>,
   execution_order |->
     [n \in 1..Len(data.code_blocks) |->
        [type |-> data.code_blocks[n].type, content |-> data.code_blocks[n].content,
         line |-> data.code_blocks[n].line]]]

\* line 305: parsed_data.get('directives', {}).get('disable_multifile')
MultifileDisabled(data) ==
  /\ <<"d","i","s","a","b","l","e","_","m","u","l","t","i","f","i","l","e">> \in DOMAIN data.directives
  /\ data.directives[<<"d","i","s","a","b","l","e","_","m","u","l","t","i","f","i","l","e">>] # <<>>

\* lines 337-436: the archive of the normal mode, per being LanguageFiles;
\* a ValueError of sanitize_input leaves no archive
NormalPackage(data, lsf, per) ==
  IF \E k \in 1..Len(per) : per[k].raised
  THEN [raised |-> TRUE]
  ELSE [raised |-> FALSE,
        package |-> [source_files |-> Concat(per), manifest |-> Manifest(data, Concat(per)),
                     program_lsf |-> json_dumps(lsf)]]

\* create_package: [raised, package]
create_package(data, lsf) ==
  IF MultifileDisabled(data)
  THEN [raised |-> FALSE,
        package |-> [source_files |-> <<>>, manifest |-> MinimalManifest(data),
                     program_lsf |-> json_dumps(lsf)]]
  ELSE NormalPackage(data, lsf, LanguageFiles(data.code_blocks))

\* main of lf-compile.py, line 463
GenerateLsf ==
  /\ p_pc = "done" /\ k_pc = "idle"
  /\ k_pc' = "lsf"
  /\ lsf_content' = generate_lsf(parsed_data)
  /\ UNCHANGED package
  /\ UNCHANGED <<parseVars, screenVars, mergeVars, runVars, printfVars, declVars, cliVars>>

\* what becomes of the compilation when create_package ends as r
Packaged(r) ==
  IF r.raised
  THEN k_pc' = "failed" /\ UNCHANGED package
  ELSE k_pc' = "packed" /\ package' = r.package

\* main of lf-compile.py, lines 480-495
CreatePackage ==
  /\ k_pc = "lsf"
  /\ Packaged(create_package(parsed_data, lsf_content))
  /\ UNCHANGED lsf_content
  /\ UNCHANGED <<parseVars, screenVars, mergeVars, runVars, printfVars, declVars, cliVars>>

\* execute_package: the program of program.lsf is handed to execute, which
\* enters _merge_python_blocks with its code_blocks (line 91)
ExecutePackage ==
  /\ k_pc = "packed" /\ m_pc = "idle"
  /\ k_pc' = "loaded"
  /\ m_pc' = "loop"
  /\ m_in' = json_loads(package.program_lsf).program.code_blocks
  /\ UNCHANGED <<m_i, merged_blocks, lsf_content, package>>
  /\ UNCHANGED <<parseVars, screenVars, runVars, printfVars, declVars, cliVars>>

(***************************************************************************)
(* lf-run.py: execute_cpp and the printf fast path                         *)
(***************************************************************************)
Digits == {"0", "1", "2", "3", "4", "5", "6", "7", "8", "9"}

\* the names of self.variables as text
NameText(name) ==
  CASE name = "x" -> <<"x">> [] name = "n" -> <<"n">> [] name = "cpp" -> <<"c","p","p">>
    [] name = "global_start_time" -> <<"g","l","o","b","a","l","_","s","t","a","r","t","_","t","i","m","e">>

\* str(value): a data value is an int of one digit; the runtime object
\* and the float global_start_time print as Python prints them
Str(value) ==
  IF value = "self" THEN <<"<","O","p","t","i","m","i","z","e","d","L","F","R","u","n","t","i","m","e"," ","o","b","j","e","c","t",">">>
  ELSE IF value = "t0" THEN <<"0",".","0">>
  ELSE <<value>>

\* s.rfind(c): 0-based index of the last occurrence, -1 when there is none
RFind(s, c) ==
  LET hits == {k \in 1..Len(s) : s[k] = c}
  IN IF hits = {} THEN -1 ELSE Max(hits) - 1

\* execute_cpp, lines 328-331
CppCode(code) == IF StartsWith(code, <<"c","p","p",".">>) THEN Drop(code, 4) ELSE code

(***************************************************************************)
(* lf-run.py: a py fragment that does not end                              *)
(***************************************************************************)
\* execute_python line 705: exec(code, env) is called in the interpreter's
\* own thread without any bound; when the code does not end (while True:
\* pass, or input() on a terminal nobody types on) the call never returns
ExecutePythonForever ==
  /\ Running
  /\ Cur.type = "py"
  /\ pc' = "exec"
  /\ UNCHANGED <<blocks, idx, variables, functions, temp_files, fs, created, unlinked, log, last_env>>
  /\ UNCHANGED <<parseVars, screenVars, mergeVars, packVars, printfVars, declVars, cliVars>>

(***************************************************************************)
(* lf-run.py: execute_python on code made of simple statements             *)
(***************************************************************************)
KnownNames == {"x", "n", "cpp", "global_start_time"}

IsName(text) == \E name \in KnownNames : NameText(name) = text

NameOf(text) == CHOOSE name \in KnownNames : NameText(name) = text

S_globals == <<"g","l","o","b","a","l","s","(",")","[","\"">>
S_def == <<"d","e","f"," ">>

\* the value of an expression in env: an int literal of one digit or a
\* bound name; anything else raises (1/0: ZeroDivisionError, a name that
\* is not bound: NameError)
PyEval(expr, env) ==
  IF Len(expr) = 1 /\ expr[1] \in Digits THEN [raised |-> FALSE, value |-> expr[1]]
  ELSE IF IsName(expr) /\ NameOf(expr) \in DOMAIN env
  THEN [raised |-> FALSE, value |-> env[NameOf(expr)]]
  ELSE [raised |-> TRUE, value |-> "none"]

Bind(d, name, value) == Update(d, [k \in {name} |-> value])

\* globals()["NAME"]=EXPR: env['globals'] is lambda: self.variables (line
\* 696), so the item assignment writes self.variables itself
GlobalsStore(st, rest, v) ==
  IF v.raised THEN [st EXCEPT !.raised = TRUE]
  ELSE [st EXCEPT !.vars = Bind(st.vars, NameOf(Take(rest, Find(rest, <<"\"">>, 0))), v.value)]

\* NAME=EXPR binds the name in env, the globals dict of exec
Assign(st, name, v) ==
  IF v.raised THEN [st EXCEPT !.raised = TRUE]
  ELSE [st EXCEPT !.env = Bind(st.env, NameOf(name), v.value)]

\* one statement of the code; st holds env, self.variables and whether an
\* exception has left exec
ExecStatement(st, stmt) ==
  IF st.raised THEN st
  ELSE IF StartsWith(stmt, S_globals)
  THEN GlobalsStore(st, Drop(stmt, Len(S_globals)),
                    PyEval(Strip(Drop(stmt, Find(stmt, <<"=">>, 0) + 1)), st.env))
  ELSE IF StartsWith(stmt, S_def)
  THEN [st EXCEPT !.env = Bind(st.env, NameOf(SubSeq(stmt, 5, Find(stmt, <<"(">>, 0))), "f")]
  ELSE IF Contains(stmt, <<"=">>)
  THEN Assign(st, Strip(Take(stmt, Find(stmt, <<"=">>, 0))),
              PyEval(Strip(Drop(stmt, Find(stmt, <<"=">>, 0) + 1)), st.env))
  ELSE [st EXCEPT !.raised = PyEval(stmt, st.env).raised]

RECURSIVE ExecFrom(_, _, _)
ExecFrom(stmts, k, st) ==
  IF k > Len(stmts) THEN st
  ELSE ExecFrom(stmts, k + 1, ExecStatement(st, Strip(stmts[k])))

\* lines 700-705: env.update(self.variables); env.update(self.functions);
\* exec(code, env)
exec(code, vs, fs_) ==
  ExecFrom(Split(code, ";"), 1, [env |-> PythonEnv(vs, fs_), vars |-> vs, raised |-> FALSE])

\* lines 707-722: after exec the loop over env; when exec raised, the
\* except clause raises again and the loop is not reached
Committed(r, fs_) ==
  IF r.raised
  THEN [raised |-> TRUE, variables |-> r.vars, functions |-> fs_, env |-> r.env]
  ELSE [raised |-> FALSE, variables |-> CommitVariables(r.vars, r.env),
        functions |-> CommitFunctions(fs_, r.env), env |-> r.env]

execute_python(code, vs, fs_) == Committed(exec(code, vs, fs_), fs_)

PythonEnds(r) ==
  /\ variables' = r.variables
  /\ functions' = r.functions
  /\ last_env' = IF r.raised THEN last_env ELSE r.env
  /\ Dispatch(IF r.raised THEN "raised" ELSE "ok")

\* execute_block on a py block whose content is given
ExecutePythonCode ==
  /\ Running
  /\ Cur.type = "py"
  /\ PythonEnds(execute_python(Cur.content, variables, functions))
  /\ UNCHANGED <<temp_files, fs, created, unlinked>>
  /\ UNCHANGED <<parseVars, screenVars, mergeVars, packVars, printfVars, declVars, cliVars>>

\* lines 334-341: the test of the fast path, with start and end found
TakesFastPath(c) ==
  /\ StartsWith(Strip(c), <<"p","r","i","n","t","f","(">>)
  /\ ~Contains(c, <<"<","<">>)
  /\ ~Contains(c, <<"c","o","u","t">>)
  /\ CountOf(c, {";"}) <= 1
  /\ Find(c, <<"(">>, 0) # -1 /\ RFind(c, ")") # -1

\* line 342: cpp_code[start+1:end]
PrintfContent(c) == SubSeq(c, Find(c, <<"(">>, 0) + 2, RFind(c, ")"))

\* r'%[0-9.]*[sdfFgGeExXoOc]' matched at 1-based position k of s: the
\* position of its last character, 0 when it does not match there
PlaceholderEnd(s, k) ==
  IF k > Len(s) \/ s[k] # "%" THEN 0
  ELSE LET rest == {j \in (k + 1)..Len(s) : s[j] \notin Digits \cup {"."}}
       IN IF rest # {} /\ s[Min(rest)] \in
               {"s", "d", "f", "F", "g", "G", "e", "E", "x", "X", "o", "O", "c"}
          THEN Min(rest) ELSE 0

\* re.search(pattern, result): the start of the first match, 0 when none
FirstPlaceholder(s) ==
  LET hits == {k \in 1..Len(s) : PlaceholderEnd(s, k) # 0}
  IN IF hits = {} THEN 0 ELSE Min(hits)

\* _split_printf_params: one turn of the for loop
SplitStep(st, char) ==
  IF ~st.in_string
  THEN IF char \in {"\"", "'"}
       THEN [st EXCEPT !.in_string = TRUE, !.string_char = char, !.current_param = Append(@, char)]
       ELSE IF char = "(" THEN [st EXCEPT !.paren_count = @ + 1, !.current_param = Append(@, char)]
       ELSE IF char = ")" THEN [st EXCEPT !.paren_count = @ - 1, !.current_param = Append(@, char)]
       ELSE IF char = "[" THEN [st EXCEPT !.bracket_count = @ + 1, !.current_param = Append(@, char)]
       ELSE IF char = "]" THEN [st EXCEPT !.bracket_count = @ - 1, !.current_param = Append(@, char)]
       ELSE IF char = "{" THEN [st EXCEPT !.brace_count = @ + 1, !.current_param = Append(@, char)]
       ELSE IF char = "}" THEN [st EXCEPT !.brace_count = @ - 1, !.current_param = Append(@, char)]
       ELSE IF char = "," /\ st.paren_count = 0 /\ st.bracket_count = 0 /\ st.brace_count = 0
       THEN [st EXCEPT !.params = Append(@, Strip(st.current_param)), !.current_param = <<>>]
       ELSE [st EXCEPT !.current_param = Append(@, char)]
  ELSE IF char = st.string_char
       THEN [st EXCEPT !.in_string = FALSE, !.string_char = "", !.current_param = Append(@, char)]
       ELSE [st EXCEPT !.current_param = Append(@, char)]

RECURSIVE SplitLoop(_, _, _)
SplitLoop(s, k, st) == IF k > Len(s) THEN st ELSE SplitLoop(s, k + 1, SplitStep(st, s[k]))

LastParam(st) ==
  IF Strip(st.current_param) # <<>> THEN Append(st.params, Strip(st.current_param)) ELSE st.params

_split_printf_params(params_str) ==
  LastParam(SplitLoop(params_str, 1,
                      [params |-> <<>>, current_param |-> <<>>, paren_count |-> 0,
                       bracket_count |-> 0, brace_count |-> 0, in_string |-> FALSE,
                       string_char |-> ""]))

\* int(expr) succeeds: an optional sign and digits
IsIntLiteral(expr) ==
  LET body == IF expr # <<>> /\ expr[1] \in {"+", "-"} THEN Tail(expr) ELSE expr
  IN body # <<>> /\ \A k \in 1..Len(body) : body[k] \in Digits

\* str(int(expr))
IntStr(expr) ==
  LET body == IF expr[1] \in {"+", "-"} THEN Tail(expr) ELSE expr
      nonzero == {k \in 1..Len(body) : body[k] # "0"}
  IN IF nonzero = {} THEN <<"0">>
     ELSE (IF expr[1] = "-" THEN <<"-">> ELSE <<>>) \o Drop(body, Min(nonzero) - 1)

\* float(expr) succeeds: digits around one point
IsFloatLiteral(expr) ==
  /\ CountOf(expr, {"."}) = 1
  /\ CountOf(expr, Digits) = Len(expr) - 1
  /\ Len(expr) >= 2

\* str(float(expr)) of such a literal
FloatStr(expr) ==
  LET point == Find(expr, <<".">>, 0)
      frac == Drop(expr, point + 1)
      kept == {k \in 1..Len(frac) : frac[k] # "0"}
  IN IntStr(<<"0">> \o Take(expr, point)) \o <<".">> \o
     (IF kept = {} THEN <<"0">> ELSE Take(frac, Max(kept)))

\* the methods of the runtime that run a script with an external program:
\* the program and the suffix of the temporary file
ExecutorPrograms ==
  [m \in {<<"e","x","e","c","u","t","e","_","p","h","p">>, <<"e","x","e","c","u","t","e","_","j","a","v","a","s","c","r","i","p","t">>} |->
     IF m = <<"e","x","e","c","u","t","e","_","p","h","p">> THEN [program |-> "php", kind |-> "php"]
     ELSE [program |-> "node", kind |-> "js"]]

\* what an evaluation gives: whether it raised, str(value), the executors
\* it ran, and self.variables and self.functions as it leaves them
Value(raised, text, calls, vs, fs_) ==
  [raised |-> raised, text |-> text, calls |-> calls, variables |-> vs, functions |-> fs_]

\* the first argument of the call expr, a string literal, without its quotes
FirstArgument(expr, open) ==
  LET args == _split_printf_params(SubSeq(expr, open + 2, Len(expr) - 1))
  IN IF Len(args) > 0 /\ Len(args[1]) >= 2 THEN SubSeq(args[1], 2, Len(args[1]) - 1) ELSE <<>>

\* cpp.execute_python(code, line) inside eval: the method runs on the
\* runtime object; when it raises, the except clause of
\* _evaluate_expression_simple gives the text back
RanPython(expr, r) ==
  Value(FALSE, IF r.raised THEN expr ELSE <<"N","o","n","e">>, <<>>, r.variables, r.functions)

\* eval(expr, {"__builtins__": {}}, safe_env), safe_env being
\* dict(self.variables) and the allow-list: decided for a call of a method
\* on a name bound to the runtime object (the method runs and returns
\* None); every other text here is one the model's arguments make eval
\* raise for, and the except clause turns that into the text itself
EvalExpr(expr, vs, fs_) ==
  LET dot == Find(expr, <<".">>, 0)
      open == Find(expr, <<"(">>, 0)
      bound == {n \in DOMAIN vs : dot # -1 /\ NameText(n) = Take(expr, dot)}
  IN IF /\ bound # {} /\ open > dot /\ EndsWith(expr, <<")">>)
        /\ \A n \in bound : vs[n] = "self"
     THEN IF SubSeq(expr, dot + 2, open) \in DOMAIN ExecutorPrograms
          THEN Value(FALSE, <<"N","o","n","e">>, <<SubSeq(expr, dot + 2, open)>>, vs, fs_)
          ELSE IF SubSeq(expr, dot + 2, open) = <<"e","x","e","c","u","t","e","_","p","y","t","h","o","n">>
          THEN RanPython(expr, execute_python(FirstArgument(expr, open), vs, fs_))
          ELSE Value(FALSE, expr, <<>>, vs, fs_)
     ELSE Value(FALSE, expr, <<>>, vs, fs_)

\* _evaluate_expression_simple on the stripped text
EvaluateStripped(expr, vs, fs_) ==
  LET named == {n \in DOMAIN vs : NameText(n) = expr}
  IN IF named # {} /\ \A n \in named : ~callable(vs[n])
     THEN Value(FALSE, Str(vs[CHOOSE n \in named : TRUE]), <<>>, vs, fs_)
     ELSE IF /\ Len(expr) >= 2
             /\ \/ expr[1] = "\"" /\ expr[Len(expr)] = "\""
                \/ expr[1] = "'" /\ expr[Len(expr)] = "'"
     THEN Value(FALSE, SubSeq(expr, 2, Len(expr) - 1), <<>>, vs, fs_)
     ELSE IF /\ StartsWith(expr, <<"l","e","n","(">>) /\ EndsWith(expr, <<")">>)
             /\ \E n \in DOMAIN vs : NameText(n) = Strip(SubSeq(expr, 5, Len(expr) - 1))
     THEN Value(TRUE, <<>>, <<>>, vs, fs_)
     ELSE IF Contains(expr, <<".">>) /\ IsFloatLiteral(expr)
     THEN Value(FALSE, FloatStr(expr), <<>>, vs, fs_)
     ELSE IF ~Contains(expr, <<".">>) /\ IsIntLiteral(expr)
     THEN Value(FALSE, IntStr(expr), <<>>, vs, fs_)
     ELSE EvalExpr(expr, vs, fs_)

_evaluate_expression_simple(expr, vs, fs_) == EvaluateStripped(Strip(expr), vs, fs_)

\* lines 520-528: the for loop over params from the k-th on, v being the
\* value of the k-th; the next parameter is evaluated in the state the
\* evaluation of this one left
RECURSIVE FillFrom(_, _, _, _, _)
FillStep(result, params, k, v) ==
  IF v.raised THEN Value(TRUE, <<>>, v.calls, v.variables, v.functions)
  ELSE IF FirstPlaceholder(result) = 0 THEN Value(FALSE, result, v.calls, v.variables, v.functions)
  ELSE [FillFrom(Take(result, FirstPlaceholder(result) - 1) \o v.text \o
                   Drop(result, PlaceholderEnd(result, FirstPlaceholder(result))),
                 params, k + 1, v.variables, v.functions)
          EXCEPT !.calls = v.calls \o @]

FillFrom(result, params, k, vs, fs_) ==
  IF k > Len(params) THEN Value(FALSE, result, <<>>, vs, fs_)
  ELSE FillStep(result, params, k, _evaluate_expression_simple(params[k], vs, fs_))

\* _parse_printf_ultimate on the stripped content
ParseStripped(content, vs, fs_) ==
  LET end_quote == Find(content, <<"\"">>, 1)
      params_str == LStrip(Drop(content, end_quote + 1))
  IN IF ~StartsWith(content, <<"\"">>) \/ end_quote = -1
     THEN Value(FALSE, content, <<>>, vs, fs_)
     ELSE IF StartsWith(params_str, <<",">>)
     THEN FillFrom(SubSeq(content, 2, end_quote),
                   _split_printf_params(Strip(Drop(params_str, 1))), 1, vs, fs_)
     ELSE Value(FALSE, SubSeq(content, 2, end_quote), <<>>, vs, fs_)

_parse_printf_ultimate(content, vs, fs_) == ParseStripped(Strip(content), vs, fs_)

\* the outcomes of an executor in which subprocess.run started a program
Started(outcome) == outcome \notin {"create_error", "no_toolchain"}

\* what the fast path leaves behind when _parse_printf_ultimate ends as r:
\* print(result, end=''), or the exception that execute_block reports;
\* each executor the evaluation called has run as in ExecutePhp
FastPathEnds(r) ==
  \E outcome \in InterpretedOutcomes :
    /\ x_pc' = IF r.raised THEN "raised" ELSE "returned"
    /\ variables' = r.variables
    /\ functions' = r.functions
    /\ stdout' = IF r.raised THEN stdout ELSE stdout \o r.text
    /\ spawned' = spawned \o (IF Started(outcome)
                              THEN [q \in 1..Len(r.calls) |-> ExecutorPrograms[r.calls[q]].program]
                              ELSE <<>>)
    /\ fs' = fs \cup UNION {ScriptOnDisk(1, ExecutorPrograms[r.calls[q]].kind, outcome) :
                              q \in 1..Len(r.calls)}
    /\ created' = created \cup UNION {ScriptOnDisk(1, ExecutorPrograms[r.calls[q]].kind, outcome) :
                                        q \in 1..Len(r.calls)}
    /\ temp_files' = temp_files \o (IF ReachesTracking(outcome)
                                    THEN [q \in 1..Len(r.calls) |->
                                            File(1, ExecutorPrograms[r.calls[q]].kind)]
                                    ELSE <<>>)

\* execute_cpp, lines 334-345: the fast path
CallFastPath ==
  /\ x_pc = "call"
  /\ TakesFastPath(CppCode(cpp_code))
  /\ FastPathEnds(_parse_printf_ultimate(PrintfContent(CppCode(cpp_code)), variables, functions))
  /\ UNCHANGED <<cpp_code, pc, blocks, idx, unlinked, log, last_env>>
  /\ UNCHANGED <<parseVars, screenVars, mergeVars, packVars, declVars, cliVars>>

\* execute_cpp, lines 346-350: _execute_cpp_full, which runs g++ and then
\* the program it made
CallFullPath ==
  /\ x_pc = "call"
  /\ ~TakesFastPath(CppCode(cpp_code))
  /\ \E outcome \in CompiledOutcomes :
       /\ fs' = fs \cup CppOnDisk(1, outcome)
       /\ created' = created \cup CppOnDisk(1, outcome)
       /\ temp_files' = temp_files \o CppTracked(1, outcome)
       /\ spawned' = spawned \o (IF ~Started(outcome) THEN <<>>
                                 ELSE IF outcome \in {"ok", "stderr", "run_timeout"}
                                 THEN <<"g++", "a.out">> ELSE <<"g++">>)
  /\ x_pc' = "returned"
  /\ UNCHANGED <<cpp_code, stdout, pc, blocks, idx, variables, functions, unlinked, log, last_env>>
  /\ UNCHANGED <<parseVars, screenVars, mergeVars, packVars, declVars, cliVars>>

(***************************************************************************)
(* lf-run.py: _generate_cpp_program and _python_to_cpp_variable            *)
(***************************************************************************)
\* Python values with their type: text is what str() gives for a scalar,
\* items the elements of a list, or the (key, value) pairs of a dict
Scalar(type, text) == [type |-> type, text |-> text, items |-> <<>>]

PyList(items) == [type |-> "list", text |-> <<>>, items |-> items]

PyDict(pairs) == [type |-> "dict", text |-> <<>>, items |-> pairs]

Opaque(type) == [type |-> type, text |-> <<>>, items |-> <<>>]

\* isinstance(v, int) is true of a bool: bool is a subclass of int
IsInstanceInt(v) == v.type \in {"int", "bool"}

IsInstanceFloat(v) == v.type = "float"

\* line 432: callable(var_value) or hasattr(var_value, '__name__')
SkippedByGenerator(v) == v.type \in {"function", "module"}

\* sep.join(parts) for a separator of any length
RECURSIVE JoinText(_, _)
JoinText(parts, sep) ==
  IF Len(parts) = 0 THEN <<>>
  ELSE IF Len(parts) = 1 THEN parts[1]
  ELSE parts[1] \o sep \o JoinText(Tail(parts), sep)

\* var_value.replace('"', '\\"')
RECURSIVE EscapeQuotes(_)
EscapeQuotes(s) ==
  IF Len(s) = 0 THEN <<>>
  ELSE (IF s[1] = "\"" THEN <<"\\", "\"">> ELSE <<s[1]>>) \o EscapeQuotes(Tail(s))

None == [none |-> TRUE, text |-> <<>>]

Returned(text) == [none |-> FALSE, text |-> text]

\* lines 470-474: the list branch
ListDeclaration(name, v) ==
  IF Len(v.items) > 0 /\ \A k \in 1..Len(v.items) :
                            IsInstanceInt(v.items[k]) \/ IsInstanceFloat(v.items[k])
  THEN Returned(<<"v","e","c","t","o","r","<","d","e","c","l","t","y","p","e","(">> \o v.items[1].text \o <<")",">"," ">> \o name \o <<" ","="," ","{">> \o
                JoinText([k \in 1..Len(v.items) |-> v.items[k].text], <<","," ">>) \o <<"}",";">>)
  ELSE None

\* lines 475-478: the dict branch
DictDeclaration(name, v) ==
  IF Len(v.items) > 0 /\ \A k \in 1..Len(v.items) :
                            v.items[k][1].type = "str" /\ v.items[k][2].type = "str"
  THEN Returned(<<"/","/"," ","m","a","p","<","s","t","r","i","n","g",","," ","s","t","r","i","n","g",">"," ">> \o name \o <<";"," ","/","/"," ","D","i","c","t","i","o","n","a","r","y"," ","n","o","t"," ","f","u","l","l","y"," ","s","u","p","p","o","r","t","e","d">>)
  ELSE None

_python_to_cpp_variable(name, v) ==
  IF v.type = "bool"
  THEN Returned(<<"b","o","o","l"," ">> \o name \o <<" ","="," ">> \o
                (IF v.text = <<"T","r","u","e">> THEN <<"t","r","u","e">> ELSE <<"f","a","l","s","e">>) \o <<";">>)
  ELSE IF IsInstanceInt(v) THEN Returned(<<"i","n","t"," ">> \o name \o <<" ","="," ">> \o v.text \o <<";">>)
  ELSE IF IsInstanceFloat(v) THEN Returned(<<"d","o","u","b","l","e"," ">> \o name \o <<" ","="," ">> \o v.text \o <<";">>)
  ELSE IF v.type = "str"
  THEN Returned(<<"s","t","r","i","n","g"," ">> \o name \o <<" ","="," ","\"">> \o EscapeQuotes(v.text) \o <<"\"",";">>)
  ELSE IF v.type = "list" THEN ListDeclaration(name, v)
  ELSE IF v.type = "dict" THEN DictDeclaration(name, v)
  ELSE None

\* lines 430-435: what the loop appends for one entry of self.variables
Declarations(name, v, cpp_var) ==
  IF ~SkippedByGenerator(v) /\ ~cpp_var.none /\ cpp_var.text # <<>>
  THEN <<cpp_var.text>> ELSE <<>>

DeclareVariable ==
  /\ d_pc = "call"
  /\ d_pc' = "returned"
  /\ variable_declarations' =
       Declarations(NameText(var_name), var_value,
                    _python_to_cpp_variable(NameText(var_name), var_value))
  /\ UNCHANGED <<var_name, var_value>>
  /\ UNCHANGED <<parseVars, screenVars, mergeVars, runVars, packVars, printfVars, cliVars>>

(***************************************************************************)
(* lf-run.py: what the guest executors print about a fragment that fails   *)
(***************************************************************************)
\* the sign a message starts with, one character each
WarningSign == <<"(warning sign)">>
CrossMark == <<"(cross mark)">>

\* str(line_number)
RECURSIVE Decimal(_)
Decimal(n) ==
  IF n < 10 THEN <<(<<"0", "1", "2", "3", "4", "5", "6", "7", "8", "9">>)[n + 1]>>
  ELSE Decimal(n \div 10) \o Decimal(n % 10)

\* what a compiler or a program writes on stderr: a compiler's error that
\* names the source file, one that names a temp_ file, a linker's message
\* without the word error:, two lines, and a path spelled as the pattern
\* of _format_cpp_compile_error wants it
StderrTexts ==
  { <<"/","t","m","p","/","t","m","p","a","b",".","c","p","p",":","7",":","5",":"," ","e","r","r","o","r",":"," ","y">>,
    <<"t","e","m","p","_","1",".","c","p","p",":","7",":","5",":"," ","e","r","r","o","r",":"," ","y">>,
    <<"l","d",":"," ","c","a","n","n","o","t"," ","f","i","n","d"," ","-","l","x">>,
    <<"a", ":", " ", "e", "r", "r", "o", "r", ":", " ", "b", NL, "n", "o", "t", "e">>,
    <<"/","t","m","p","/","t","m","p","\\","w","\\",".","c","p","p",":"," ","e","r","r","o","r",":"," ","y">> }

\* the cpp fragments _execute_cpp_full is called with
FullPathCodes == { <<"i","n","t"," ","y"," ","="," ",";">> }

\* re.sub(r'/tmp/tmp\\w+\\.cpp', ...): in the raw string the pattern is
\* /tmp/tmp, a backslash, one or more letters w, a backslash, any
\* character, cpp.  The length of the match that begins at p, 0 for none
PathMatchLen(line, p) ==
  LET head == <<"/","t","m","p","/","t","m","p","\\">>
      ws == {k \in 1..Len(line) :
               /\ p + Len(head) + k - 1 <= Len(line)
               /\ \A q \in 0..(k - 1) : line[p + Len(head) + q] = "w"}
      after == p + Len(head) + (IF ws = {} THEN 0 ELSE Max(ws))
  IN IF /\ OccursAt(line, head, p) /\ ws # {}
        /\ after + 4 <= Len(line)
        /\ line[after] = "\\" /\ line[after + 1] # NL
        /\ SubSeq(line, after + 2, after + 4) = <<"c","p","p">>
     THEN after + 5 - p ELSE 0

\* re.sub replacing every match, left to right, from position p on
RECURSIVE SubstitutePath(_, _, _)
SubstitutePath(line, p, repl) ==
  IF p > Len(line) THEN <<>>
  ELSE IF PathMatchLen(line, p) > 0
  THEN repl \o SubstitutePath(line, p + PathMatchLen(line, p), repl)
  ELSE <<line[p]>> \o SubstitutePath(line, p + 1, repl)

\* _format_cpp_compile_error: the lines kept, cleaned
RECURSIVE SimplifiedErrors(_, _, _)
SimplifiedErrors(ls, k, line_number) ==
  IF k > Len(ls) THEN <<>>
  ELSE IF Contains(ls[k], <<"e","r","r","o","r",":">>) /\ ~Contains(ls[k], <<"t","e","m","p","_">>)
  THEN <<SubstitutePath(ls[k], 1, <<"l","i","n","e"," ">> \o Decimal(line_number))>> \o
       SimplifiedErrors(ls, k + 1, line_number)
  ELSE SimplifiedErrors(ls, k + 1, line_number)

_format_cpp_compile_error(error_output, line_number, original_code) ==
  IF SimplifiedErrors(Split(error_output, NL), 1, line_number) # <<>>
  THEN <<"[","C","+","+","]"," ","C","o","m","p","i","l","e"," ","E","r","r","o","r",":">> \o <<NL>> \o
       Join(Take(SimplifiedErrors(Split(error_output, NL), 1, line_number), 5), NL) \o
       <<NL>> \o <<"C","o","d","e",":"," ">> \o original_code
  ELSE <<"[","C","+","+","]"," ","C","o","m","p","i","l","e"," ","E","r","r","o","r"," ","a","t"," ","l","i","n","e"," ">> \o Decimal(line_number) \o <<":"," ">> \o original_code

\* the tag of an executor in its messages, and the names it uses
Tag(type) ==
  CASE type = "cpp" -> <<"[","C","+","+","]">> [] type = "js" -> <<"[","J","S","]">> [] type = "java" -> <<"[","J","A","V","A","]">>
    [] type = "php" -> <<"[","P","H","P","]">> [] type = "rust" -> <<"[","R","U","S","T","]">>

NotFoundText(type) ==
  CASE type = "cpp" -> <<" ","C","o","m","p","i","l","e","r"," ","n","o","t"," ","f","o","u","n","d","."," ","P","l","e","a","s","e"," ","i","n","s","t","a","l","l"," ","g","+","+","."," ","S","k","i","p","p","i","n","g"," ","e","x","e","c","u","t","i","o","n",".">>
    [] type = "js" -> <<" ","N","o","d","e",".","j","s"," ","n","o","t"," ","f","o","u","n","d","."," ","P","l","e","a","s","e"," ","i","n","s","t","a","l","l"," ","N","o","d","e",".","j","s",".">>
    [] type = "java" -> <<" ","J","a","v","a"," ","c","o","m","p","i","l","e","r"," ","n","o","t"," ","f","o","u","n","d","."," ","P","l","e","a","s","e"," ","i","n","s","t","a","l","l"," ","J","D","K",".">>
    [] type = "php" -> <<" ","P","H","P"," ","i","n","t","e","r","p","r","e","t","e","r"," ","n","o","t"," ","f","o","u","n","d","."," ","P","l","e","a","s","e"," ","i","n","s","t","a","l","l"," ","P","H","P",".">>
    [] type = "rust" -> <<" ","R","u","s","t"," ","c","o","m","p","i","l","e","r"," ","n","o","t"," ","f","o","u","n","d","."," ","P","l","e","a","s","e"," ","i","n","s","t","a","l","l"," ","R","u","s","t",".">>

RuntimeText(type) ==
  CASE type = "cpp" -> <<"C","+","+"," ","R","u","n","t","i","m","e"," ","W","a","r","n","i","n","g",":"," ">>
    [] type = "js" -> <<"J","a","v","a","S","c","r","i","p","t"," ","R","u","n","t","i","m","e"," ","E","r","r","o","r",":"," ">>
    [] type = "java" -> <<"J","a","v","a"," ","R","u","n","t","i","m","e"," ","E","r","r","o","r",":"," ">>
    [] type = "php" -> <<"P","H","P"," ","R","u","n","t","i","m","e"," ","E","r","r","o","r",":"," ">>
    [] type = "rust" -> <<"R","u","s","t"," ","R","u","n","t","i","m","e"," ","E","r","r","o","r",":"," ">>

CompileErrorText(type, stderr, line_number, code) ==
  CASE type = "cpp" -> _format_cpp_compile_error(stderr, line_number, code)
    [] type = "java" -> CrossMark \o <<" ","J","a","v","a"," ","C","o","m","p","i","l","e"," ","E","r","r","o","r",":"," ">> \o stderr
    [] type = "rust" -> CrossMark \o <<" ","R","u","s","t"," ","C","o","m","p","i","l","e"," ","E","r","r","o","r",":"," ">> \o stderr

\* the messages the executor of a fragment of this type at this line can
\* print when the call ends with this outcome: the except clauses and the
\* prints inside the try block
Diagnostics(type, outcome, line_number) ==
  CASE outcome = "no_toolchain" ->
         {WarningSign \o <<" "," ">> \o Tag(type) \o NotFoundText(type)}
    [] outcome \in {"compile_timeout", "run_timeout"} ->
         {WarningSign \o <<" "," ">> \o Tag(type) \o <<" ","E","x","e","c","u","t","i","o","n"," ","t","i","m","e","o","u","t"," ","a","t"," ","l","i","n","e"," ">> \o
            Decimal(line_number) \o <<".">>}
    [] outcome = "create_error" ->
         {WarningSign \o <<" "," ">> \o Tag(type) \o <<" ","E","x","e","c","u","t","i","o","n"," ","e","r","r","o","r"," ","a","t"," ","l","i","n","e"," ">> \o
            Decimal(line_number) \o <<":"," ">> \o e \o <<".">> : e \in {<<"N","o"," ","s","p","a","c","e"," ","l","e","f","t"," ","o","n"," ","d","e","v","i","c","e">>}}
    [] outcome = "compile_fail" ->
         {CompileErrorText(type, stderr, line_number, code) :
            stderr \in StderrTexts, code \in FullPathCodes}
    [] outcome = "stderr" ->
         {WarningSign \o <<" "," ">> \o RuntimeText(type) \o stderr : stderr \in StderrTexts}
    [] OTHER -> {}

(***************************************************************************)
(* The command-line tools: lf-compile.py, lf-run.py and lf_main.py         *)
(***************************************************************************)
\* what a command ends with: the exit status of the process and the exit
\* statuses of the tools it started, in order
Ended(status, children) == [status |-> status, children |-> children]

\* lf-compile.py main: every failure it meets ends in sys.exit(1)
lf_compile_main(file, w) ==
  IF ~file.given THEN 1                      \* usage
  ELSE IF file.ext # "lf" THEN 1             \* Requires .lf file
  ELSE IF ~w.exists THEN 1                   \* File not found
  ELSE IF ~w.readable THEN 1                 \* Read failed
  ELSE IF ~w.parses THEN 1                   \* Parse error
  ELSE IF ~w.writable THEN 1                 \* Write failed
  ELSE IF ~w.packable THEN 1                 \* Package creation failed
  ELSE 0

\* execute_package: TRUE when program_data was read; the except clause
\* prints and returns
execute_package(w) == w.exists /\ w.readable

\* lf-run.py main on a file; execute returns whatever the fragments do
lf_run_main(file, w) ==
  IF ~file.given THEN 1                      \* usage
  ELSE IF file.ext = "lfp" THEN 0            \* execute_package returned
  ELSE IF file.ext = "lsf"
  THEN IF ~w.exists THEN 1                   \* File not found
       ELSE IF ~w.readable THEN 1            \* Read failed
       ELSE 0
  ELSE 1                                     \* Requires .lsf or .lfp file

\* LFMain.compile_source: the value returned and the tools started
compile_source(file, w) ==
  IF file.ext # "lf" \/ ~w.exists THEN [returned |-> FALSE, children |-> <<>>]
  ELSE [returned |-> lf_compile_main(file, w) = 0, children |-> <<lf_compile_main(file, w)>>]

\* LFMain.run_program: result.returncode is not read
run_program(file, w) ==
  IF ~w.exists \/ file.ext \notin {"lsf", "lfp"} THEN [returned |-> FALSE, children |-> <<>>]
  ELSE [returned |-> TRUE, children |-> <<lf_run_main(file, w)>>]

\* the file and the world run_program meets after a compilation: the
\* .lsf the compiler has just written
Compiled(file, w) == [file EXCEPT !.ext = "lsf"]
Written(w) == [w EXCEPT !.exists = TRUE, !.readable = TRUE]

\* LFMain.benchmark
benchmark(file, w) ==
  IF file.ext # "lf" \/ ~w.exists THEN [returned |-> FALSE, children |-> <<>>]
  ELSE IF ~compile_source(file, w).returned
  THEN [returned |-> FALSE, children |-> compile_source(file, w).children]
  ELSE [returned |-> run_program(Compiled(file, w), Written(w)).returned,
        children |-> compile_source(file, w).children \o
                     run_program(Compiled(file, w), Written(w)).children]

\* lf_main.py main: the value of the action's method is dropped and main
\* returns
lf_main(action, file, w) ==
  IF ~file.given THEN Ended(0, <<>>)
  ELSE IF action = "compile" THEN Ended(0, compile_source(file, w).children)
  ELSE IF action = "run" THEN Ended(0, run_program(file, w).children)
  ELSE Ended(0, benchmark(file, w).children)

\* a command ends
Exit(r) ==
  /\ c_pc' = "exited"
  /\ exit_status' = r.status
  /\ child_status' = r.children
  /\ UNCHANGED <<argv, world>>

CompilerCommand ==
  /\ c_pc = "start" /\ argv.tool = "lf-compile.py"
  /\ Exit(Ended(lf_compile_main(argv.file, world), <<>>))
  /\ UNCHANGED <<parseVars, screenVars, mergeVars, runVars, packVars, printfVars, declVars>>

RuntimeCommand ==
  /\ c_pc = "start" /\ argv.tool = "lf-run.py"
  /\ Exit(Ended(lf_run_main(argv.file, world), <<>>))
  /\ UNCHANGED <<parseVars, screenVars, mergeVars, runVars, packVars, printfVars, declVars>>

MainCommand ==
  /\ c_pc = "start" /\ argv.tool = "lf_main.py"
  /\ Exit(lf_main(argv.action, argv.file, world))
  /\ UNCHANGED <<parseVars, screenVars, mergeVars, runVars, packVars, printfVars, declVars>>

(***************************************************************************)
(* The inputs of the model                                                 *)
(***************************************************************************)
\* physical source lines: blank, comment, directive, py lines (plain, block
\* head, indented with and without prefix, content that starts with a blank),
\* guest lines (indented and at the margin, screened and not), and a line
\* sanitize_input reacts to
SourceLines ==
  { <<>>,
    <<"/","/","c">>,
    <<"#","n","a","m","e"," ","a">>,
    <<"p","y",".","x","=","5">>,
    <<"p","y",".","d","e","f"," ","f","(",")",":">>,
    <<" ","p","y",".","y","=","1">>,
    <<" "," ","z","=","2">>,
    <<"p","y","."," ","y","=","1">>,
    <<" ","c","p","p",".","g","(",")",";">>,
    <<"j","a","v","a",".","h","(",")",";">>,
    <<"p","y",".","e","v","a","l","(","x",")">> }

SeqsUpTo(S, n) == UNION {[1..m -> S] : m \in 1..n}

Sources == {Join(ls, NL) : ls \in SeqsUpTo(SourceLines, MaxLines)}

\* contents of code blocks as the parser hands them to the runtime
BlockContents ==
  { [type |-> "py", content |-> <<"d","e","f"," ","f","(",")",":">>],
    [type |-> "py", content |-> <<" ","y","=","1">>],
    [type |-> "py", content |-> <<" ","a","(","1",",">>],
    [type |-> "py", content |-> <<"x","=","5">>],
    [type |-> "py", content |-> <<"x","=","[">>],
    [type |-> "py", content |-> <<"x","=","[","1","]","+","y">>],
    [type |-> "py", content |-> <<"]">>],
    [type |-> "py", content |-> <<"#","c">>],
    [type |-> "cpp", content |-> <<"g","(",")",";">>],
    [type |-> "cpp", content |-> <<" ","g","(",")",";">>] }

\* the k-th block of a list gets line step*(k-1)+1: lines rise strictly, as
\* they do in what parse_lf_source returns
LineSteps == {1, 2}

BlockLists ==
  { [k \in 1..Len(cs) |-> Block(step * (k - 1) + 1, cs[k].type, cs[k].content)] :
      cs \in SeqsUpTo(BlockContents, MaxBlocks), step \in LineSteps }

Programs ==
  { [k \in 1..Len(ks) |-> [line |-> k, type |-> ks[k].type, fast |-> ks[k].fast]] :
      ks \in SeqsUpTo(BlockKinds, MaxFragments) }

\* the texts the screener is called with
ScreenCodes ==
  { <<"x","=","5">>, <<"e","v","a","l","(","x",")">>, <<"i","m","p","o","r","t"," ","o","s">>, <<"s","y","s","t","e","m","(","\"","l","s","\"",")">>, <<"d","e","f"," ","f","(",")",":">>, <<"g","(",")",";">>,
    <<"f","r","o","m"," ","."," ","i","m","p","o","r","t"," ","x">> }

ScreenLanguages == {"py", "cpp", "js", "java"}

\* the inputs of repeated screening: with and without findings, in two
\* languages, and one on which validate_code raises
RescreenInputs ==
  { [code |-> <<"e","v","a","l","(","x",")">>, language |-> "py"],
    [code |-> <<"e","v","a","l","(","x",")">>, language |-> "java"],
    [code |-> <<"i","m","p","o","r","t"," ","o","s">>, language |-> "py"],
    [code |-> <<"x","=","5">>, language |-> "py"],
    [code |-> <<"f","r","o","m"," ","."," ","i","m","p","o","r","t"," ","x">>, language |-> "py"] }

\* the cpp fragments handed to execute_cpp: printf calls (a placeholder and
\* a variable, a value that holds a placeholder, more and fewer
\* placeholders than arguments, literals, a comma in a string, an unbound
\* name, len of an int, methods of the runtime object as arguments, no
\* format string, commas inside brackets and inside a string with an escaped
\* quote), with and without the prefix, and one for the full path
PrintfCodes ==
  { <<"p","r","i","n","t","f","(","\"","v","a","l","=","%","d","\"",","," ","x",")">>,
    <<"c","p","p",".","p","r","i","n","t","f","(","\"","v","a","l","=","%","d","\"",","," ","x",")",";">>,
    <<"p","r","i","n","t","f","(","\"","%","s"," ","%","d","\"",","," ","\"","%","d","\"",","," ","5",")">>,
    <<"p","r","i","n","t","f","(","\"","%","d"," ","%","d","\"",","," ","1",")">>,
    <<"p","r","i","n","t","f","(","\"","%","d","\"",","," ","1",","," ","2",")">>,
    <<"p","r","i","n","t","f","(","\"","a","\"",")">>,
    <<"p","r","i","n","t","f","(","\"","%","d","\"",","," ","y",")">>,
    <<"p","r","i","n","t","f","(","\"","%","s",",","%","d","\"",","," ","\"","a",",","b","\"",","," ","x",")">>,
    <<"p","r","i","n","t","f","(","\"","%","5",".","2","f","\"",","," ","1",".","5","0",")">>,
    <<"p","r","i","n","t","f","(","\"","%","d","\"",","," ","0","5",")">>,
    <<"p","r","i","n","t","f","(","\"","%","d","\"",","," ","l","e","n","(","x",")",")">>,
    <<"p","r","i","n","t","f","(","\"","%","d","\"",","," ","c","p","p",".","e","x","e","c","u","t","e","_","p","h","p","(","\"","1","\"",",","1",")",")">>,
    <<"p","r","i","n","t","f","(","x",")">>,
    <<"p","r","i","n","t","f","(","\"","%","d","\"",","," ","c","p","p",".","e","x","e","c","u","t","e","_","p","y","t","h","o","n","(","\"","x","=","2","\"",",","1",")",")">>,
    <<"p","r","i","n","t","f","(","\"","%","d"," ","%","d","\"",","," ","c","p","p",".","e","x","e","c","u","t","e","_","p","y","t","h","o","n","(","\"","1","/","0","\"",",","1",")",","," ","x",")">>,
    <<"p","r","i","n","t","f","(","\"","%","s"," ","%","d","\"",","," ","f","(","1",",","2",")",","," ","5",")">>,
    <<"p","r","i","n","t","f","(","\"","%","s"," ","%","d","\"",","," ","y","[","1",",","2","]",","," ","5",")">>,
    <<"p","r","i","n","t","f","(","\"","%","s"," ","%","d","\"",","," ","y","{","1",",","2","}",","," ","5",")">>,
    <<"p","r","i","n","t","f","(","\"","%","s","\"",","," ","\"","a","\\","\"",",","b","\"",")">>,
    <<"p","r","i","n","t","f","(","\"","a","\"",")",";"," ","g","(",")",";">> }

\* self.variables when the fragment starts: the globals, and x bound or not
PrintfStates ==
  {Update(InitialGlobals, asg) : asg \in UNION {[S -> {"1", "2", "5"}] : S \in SUBSET {"x"}}}

\* the py fragments of the programs whose code is executed statement by
\* statement: data and a function bound to one name, a name read, an
\* exception after an assignment, after a store through globals() and alone
PyCodes ==
  { <<"n","=","1">>,
    <<"n","=","2">>,
    <<"d","e","f"," ","n","(",")",":"," ","p","a","s","s">>,
    <<"x","=","n">>,
    <<"n","=","1",";"," ","1","/","0">>,
    <<"g","l","o","b","a","l","s","(",")","[","\"","n","\"","]","=","2">>,
    <<"g","l","o","b","a","l","s","(",")","[","\"","n","\"","]","=","2",";"," ","1","/","0">>,
    <<"1","/","0">> }

PyPrograms ==
  { [k \in 1..Len(cs) |-> [line |-> k, type |-> "py", content |-> cs[k]]] :
      cs \in SeqsUpTo(PyCodes, MaxFragments) }

\* the values a state can hold under a name: scalars, objects that are
\* not data, lists (empty, of one type, mixed, nested) and dicts
SimpleValues ==
  { Scalar("bool", <<"T","r","u","e">>), Scalar("int", <<"1">>), Scalar("float", <<"1",".","5">>),
    Scalar("str", <<"a">>) }

ListElements == SimpleValues \cup {PyList(<<Scalar("int", <<"1">>)>>)}

StateValues ==
  SimpleValues
    \cup { Scalar("bool", <<"F","a","l","s","e">>), Scalar("int", <<"0">>), Scalar("str", <<>>),
           Scalar("str", <<"a","\"","b">>) }
    \cup { Opaque("function"), Opaque("module"), Opaque("object"), Opaque("NoneType") }
    \cup { PyList(items) : items \in {<<>>} \cup SeqsUpTo(ListElements, MaxItems) }
    \cup { PyDict(<<>>), PyDict(<< <<Scalar("str", <<"a">>), Scalar("str", <<"b">>)>> >>),
           PyDict(<< <<Scalar("str", <<"a">>), Scalar("int", <<"1">>)>> >>) }

\* source lines with directives (quoted and unquoted values, a backslash
\* before the quote, an unmatched quote, the four stored keys and others),
\* and a line for each other branch of the parser
DirectiveLines ==
  { <<"#","n","a","m","e"," ","\"","a"," ","/","/"," ","b","\"">>,
    <<"#","n","a","m","e"," ","a"," ","/","/"," ","b">>,
    <<"#","n","a","m","e"," ","\"","a","\\","\"","b","\"">>,
    <<"#","n","a","m","e"," ","\"","a">>,
    <<"#","a","u","t","h","o","r"," ","1","x">>,
    <<"#","p","y","t","h","o","n","_","i","m","p","o","r","t"," ","1","x">>,
    <<"#","p","y","t","h","o","n","_","i","m","p","o","r","t"," ","o","s">>,
    <<"#","f","o","o"," ","b","a","r">>,
    <<"#","d","i","s","a","b","l","e","_","m","u","l","t","i","f","i","l","e"," ","1">>,
    <<"/","/","c">>,
    <<"p","y",".","x","=","5">>,
    <<"c","p","p",".","g","(",")",";">>,
    <<"z","z">> }

DirectiveSources == {Join(ls, NL) : ls \in SeqsUpTo(DirectiveLines, MaxLines)}

\* the lines of the sources that are compiled and packaged: fragments of
\* three languages (one with a quote, one that opens a block, and two that
\* sanitize_input accepts apart and rejects joined), a stored and a dropped
\* directive, a comment and a line without prefix
CompileLines ==
  { <<"/","/","c">>,
    <<"#","n","a","m","e"," ","\"","a","\\","\"","b","\"">>,
    <<"#","d","i","s","a","b","l","e","_","m","u","l","t","i","f","i","l","e"," ","1">>,
    <<"p","y",".","x","=","5">>,
    <<"p","y",".","i","f"," ","x",":">>,
    <<"c","p","p",".","g","(","\"","a","\"",")",";">>,
    <<"j","a","v","a",".","o","p","e","n">>,
    <<"j","a","v","a",".","(",".",".","/","x",")">>,
    <<"z","z">> }

CompileSources == {Join(ls, NL) : ls \in SeqsUpTo(CompileLines, MaxLines)}

(***************************************************************************)
(* Specifications                                                          *)
(***************************************************************************)
ParseIdle ==
  /\ source = <<>> /\ p_pc = "idle" /\ p_error = "none" /\ lines = <<>> /\ i = 0
  /\ directives = EmptyMap /\ code_blocks = <<>> /\ absorbed = {} /\ checker_bound = FALSE

ScreenIdle == level = DefaultLevel /\ security_issues = <<>> /\ s_calls = <<>> /\ lists = <<>>

MergeIdle == m_pc = "idle" /\ m_in = <<>> /\ m_i = 0 /\ merged_blocks = <<>>

RunIdle ==
  /\ pc = "idle" /\ blocks = <<>> /\ idx = 0 /\ variables = EmptyMap /\ functions = EmptyMap
  /\ temp_files = <<>> /\ fs = {} /\ created = {} /\ unlinked = EmptyMap /\ log = <<>>
  /\ last_env = EmptyMap

PackIdle == k_pc = "idle" /\ lsf_content = EmptyMap /\ package = EmptyMap

DeclIdle ==
  /\ d_pc = "idle" /\ var_name = "n" /\ var_value = Opaque("NoneType")
  /\ variable_declarations = <<>>

CliIdle ==
  /\ c_pc = "idle" /\ argv = EmptyMap /\ world = EmptyMap /\ child_status = <<>>
  /\ exit_status = 0

PrintfIdle == x_pc = "idle" /\ cpp_code = <<>> /\ stdout = <<>> /\ spawned = <<>>

InitParse ==
  /\ source \in Sources /\ p_pc = "start" /\ p_error = "none" /\ lines = <<>> /\ i = 0
  /\ directives = EmptyMap /\ code_blocks = <<>> /\ absorbed = {} /\ checker_bound = FALSE
  /\ ScreenIdle /\ MergeIdle /\ RunIdle /\ PackIdle /\ DeclIdle /\ CliIdle /\ PrintfIdle

NextParse ==
  \/ Sanitize \/ LoadSecurityModule \/ SkipLine \/ ParseDirective
  \/ ParseGuest \/ ParsePython \/ Unparseable \/ ParseReturn

SpecParse == InitParse /\ [][NextParse]_vars

InitMerge ==
  /\ m_in \in BlockLists /\ m_pc = "loop" /\ m_i = 0 /\ merged_blocks = <<>>
  /\ ParseIdle /\ ScreenIdle /\ RunIdle /\ PackIdle /\ DeclIdle /\ CliIdle /\ PrintfIdle

NextMerge == MergeUnit \/ MergeSingle \/ MergeGuest \/ MergeReturn

SpecMerge == InitMerge /\ [][NextMerge]_vars

\* execute, line 91: the merger is entered with the code_blocks of a
\* package; the package holds what parse_lf_source returned
LoadBlocks ==
  /\ p_pc = "done" /\ m_pc = "idle"
  /\ m_pc' = "loop"
  /\ m_in' = code_blocks
  /\ UNCHANGED <<m_i, merged_blocks>>
  /\ UNCHANGED <<parseVars, screenVars, runVars, packVars, printfVars, declVars, cliVars>>

\* the front end: a source text parsed and its blocks merged, or the
\* merger entered with the block list of a package made elsewhere
InitPipeline == InitParse \/ InitMerge

NextPipeline == NextParse \/ LoadBlocks \/ NextMerge

SpecPipeline == InitPipeline /\ [][NextPipeline]_vars

InitScreen ==
  /\ level \in SecurityLevels /\ security_issues = <<>> /\ s_calls = <<>> /\ lists = <<>>
  /\ ParseIdle /\ MergeIdle /\ RunIdle /\ PackIdle /\ DeclIdle /\ CliIdle /\ PrintfIdle

NextScreen ==
  /\ Len(s_calls) < MaxCalls
  /\ \E code \in ScreenCodes : \E language \in ScreenLanguages : ValidateCode(code, language)

SpecScreen == InitScreen /\ [][NextScreen]_vars

\* parse_lf_source on sources with directives
InitDirectives ==
  /\ source \in DirectiveSources /\ p_pc = "start" /\ p_error = "none" /\ lines = <<>> /\ i = 0
  /\ directives = EmptyMap /\ code_blocks = <<>> /\ absorbed = {} /\ checker_bound = FALSE
  /\ ScreenIdle /\ MergeIdle /\ RunIdle /\ PackIdle /\ DeclIdle /\ CliIdle /\ PrintfIdle

SpecDirectives == InitDirectives /\ [][NextParse]_vars

\* main of lf-compile.py: a source file is read, parsed and packaged; then
\* lf-run.py executes the package, or the parsed program as it is
InitCompile ==
  /\ source \in CompileSources /\ p_pc = "start" /\ p_error = "none" /\ lines = <<>> /\ i = 0
  /\ directives = EmptyMap /\ code_blocks = <<>> /\ absorbed = {} /\ checker_bound = FALSE
  /\ ScreenIdle /\ MergeIdle /\ RunIdle /\ PackIdle /\ DeclIdle /\ CliIdle /\ PrintfIdle

NextCompile ==
  \/ NextParse \/ GenerateLsf \/ CreatePackage \/ ExecutePackage \/ LoadBlocks \/ NextMerge

SpecCompile == InitCompile /\ [][NextCompile]_vars

\* one LFSecurity object called again and again
NextRescreen ==
  /\ Len(s_calls) < MaxRepeats
  /\ \E input \in RescreenInputs : ValidateCode(input.code, input.language)

SpecRescreen == InitScreen /\ [][NextRescreen]_vars

\* execute_cpp called with one fragment in a state of the runtime
InitPrintf ==
  /\ x_pc = "call" /\ cpp_code \in PrintfCodes /\ stdout = <<>> /\ spawned = <<>>
  /\ variables \in PrintfStates
  /\ pc = "idle" /\ blocks = <<>> /\ idx = 0 /\ functions = EmptyMap
  /\ temp_files = <<>> /\ fs = {} /\ created = {} /\ unlinked = EmptyMap /\ log = <<>>
  /\ last_env = EmptyMap
  /\ ParseIdle /\ ScreenIdle /\ MergeIdle /\ PackIdle /\ DeclIdle /\ CliIdle

NextPrintf == CallFastPath \/ CallFullPath

SpecPrintf == InitPrintf /\ [][NextPrintf]_vars

Init ==
  /\ blocks \in Programs /\ pc = "start" /\ idx = 0
  /\ variables = EmptyMap /\ functions = EmptyMap
  /\ temp_files = <<>> /\ fs = {} /\ created = {} /\ unlinked = EmptyMap /\ log = <<>>
  /\ last_env = EmptyMap
  /\ ParseIdle /\ ScreenIdle /\ MergeIdle /\ PackIdle /\ DeclIdle /\ CliIdle /\ PrintfIdle

Next ==
  \/ Start \/ ExecutePython \/ ExecuteCppFast \/ ExecuteCppFull \/ ExecuteJavaScript
  \/ ExecuteJava \/ ExecutePhp \/ ExecuteRust \/ ExecuteUnknown \/ UserInterrupt
  \/ Summary \/ Cleanup

Spec == Init /\ [][Next]_vars

\* a run nobody interrupts, in which every call of an external program
\* returns or times out: the interpreter goes on as long as it has a next
\* statement
NextLive ==
  \/ Start \/ ExecutePython \/ ExecutePythonForever \/ ExecuteCppFast \/ ExecuteCppFull
  \/ ExecuteJavaScript \/ ExecuteJava \/ ExecutePhp \/ ExecuteRust \/ ExecuteUnknown
  \/ Summary \/ Cleanup

SpecLive == Init /\ [][NextLive]_vars /\ WF_vars(NextLive)

\* execute on programs of py fragments
InitPython ==
  /\ blocks \in PyPrograms /\ pc = "start" /\ idx = 0
  /\ variables = EmptyMap /\ functions = EmptyMap
  /\ temp_files = <<>> /\ fs = {} /\ created = {} /\ unlinked = EmptyMap /\ log = <<>>
  /\ last_env = EmptyMap
  /\ ParseIdle /\ ScreenIdle /\ MergeIdle /\ PackIdle /\ DeclIdle /\ CliIdle /\ PrintfIdle

NextPython == Start \/ ExecutePythonCode \/ Summary \/ Cleanup

SpecPython == InitPython /\ [][NextPython]_vars

\* _generate_cpp_program on a state with one entry
InitDeclare ==
  /\ d_pc = "call" /\ var_name \in {"x", "n"} /\ var_value \in StateValues
  /\ variable_declarations = <<>>
  /\ ParseIdle /\ ScreenIdle /\ MergeIdle /\ RunIdle /\ PackIdle /\ PrintfIdle /\ CliIdle

NextDeclare == DeclareVariable

SpecDeclare == InitDeclare /\ [][NextDeclare]_vars


\* the command lines: with and without a file, of every suffix the tools
\* tell apart
Files == {[given |-> g, ext |-> e] : g \in BOOLEAN, e \in {"lf", "lsf", "lfp", "txt"}}

Argvs ==
  {[tool |-> t, action |-> "none", file |-> f] : t \in {"lf-compile.py", "lf-run.py"}, f \in Files}
  \cup {[tool |-> "lf_main.py", action |-> a, file |-> f] :
          a \in {"compile", "run", "benchmark"}, f \in Files}

\* what the file system and the source hold for the command
Worlds ==
  [exists : BOOLEAN, readable : BOOLEAN, parses : BOOLEAN, writable : BOOLEAN,
   packable : BOOLEAN]

InitCli ==
  /\ c_pc = "start" /\ argv \in Argvs /\ world \in Worlds /\ child_status = <<>>
  /\ exit_status = 0
  /\ ParseIdle /\ ScreenIdle /\ MergeIdle /\ RunIdle /\ PackIdle /\ DeclIdle /\ PrintfIdle

NextCli == CompilerCommand \/ RuntimeCommand \/ MainCommand

SpecCli == InitCli /\ [][NextCli]_vars

(***************************************************************************)
(* Properties of the dispatcher (Spec)                                     *)
(***************************************************************************)
BlockEvents == SelectSeq(log, LAMBDA e : e.ev = "block")

\* every step of the for loop and of what follows it, the interrupt of the
\* user left out
ProgramStep ==
  \/ ExecutePython \/ ExecuteCppFast \/ ExecuteCppFull \/ ExecuteJavaScript
  \/ ExecuteJava \/ ExecutePhp \/ ExecuteRust \/ ExecuteUnknown \/ Summary

\* C1: no single fragment failure is fatal.  The fragments dispatched so
\* far are fragments 1..idx of the list, each once and in list order; a
\* fragment that failed (executor raised, toolchain missing, compile
\* failure, timeout) leaves the loop running, so the next fragment or the
\* summary can be taken; nothing but an interrupt of the user ends the loop
\* early; and the summary is printed once, after the last fragment.
C1_NoFailureFatal ==
  /\ Len(BlockEvents) = idx
  /\ \A k \in 1..idx : BlockEvents[k] = log[k] /\ log[k].k = k /\ log[k].line = blocks[k].line
  /\ (Len(log) > 0 /\ log[Len(log)].outcome \in Failures) => pc = "running"
  /\ pc = "interrupted" => log[Len(log)].outcome = "interrupt"
  /\ pc = "running" => ENABLED ProgramStep
  /\ pc \in {"cleanup", "done"} =>
       /\ idx = Len(blocks)
       /\ Len(log) = Len(blocks) + 1
       /\ log[Len(log)].ev = "summary"

\* the partial failure of three fragments: the second finds no toolchain,
\* the first and the third run, the summary follows
C1_PartialFailureRun ==
  /\ pc = "done" /\ Len(blocks) = 3
  /\ log[1].outcome = "ok" /\ log[2].outcome = "no_toolchain" /\ log[3].outcome = "ok"
  /\ log[4].ev = "summary"

\* the temporary files of the general-path executors (execute_rust keeps
\* its files in a TemporaryDirectory)
GeneralPathFiles == {f \in created : f.kind # "rs"}

\* C2: every temporary file a general-path executor (C++, JavaScript, Java,
\* PHP) created is in temp_files once the executor call has ended, however
\* it ended; after _cleanup_temp_files none of them exists and each was
\* deleted exactly once.
C2_TempFilesReleased ==
  /\ pc \in {"running", "cleanup"} =>
       \A f \in GeneralPathFiles : \E k \in 1..Len(temp_files) : temp_files[k] = f
  /\ pc = "done" =>
       /\ fs = {}
       /\ \A f \in GeneralPathFiles : f \in DOMAIN unlinked /\ unlinked[f] = 1

\* C3: the binding a successful py fragment leaves for a name is the one
\* the next py fragment starts with and, when it is a plain value, the one
\* a guest fragment's marshalling (or the printf lookup) sees, whatever the
\* name was bound to before, a callable included.
C3_BindingsVisible ==
  pc = "running" =>
    \A n \in DOMAIN last_env \cap UserNames :
      /\ PythonEnv(variables, functions)[n] = last_env[n]
      /\ ~callable(last_env[n]) => GuestSees(variables, n) = last_env[n]

\* the reverse case of C3: once a name is bound to a callable, no guest is
\* handed the plain value it had before
C3_NoStaleValueForGuests ==
  pc = "running" =>
    \A n \in DOMAIN last_env \cap UserNames :
      callable(last_env[n]) => GuestSees(variables, n) = "none"

(***************************************************************************)
(* Properties of parse_lf_source (SpecParse)                               *)
(***************************************************************************)
SourceText == Split(source, NL)

ParseEnded == p_pc \in {"done", "error"}

DirectiveIsValid(cur) ==
  LET rest == Drop(cur, 1)
      sp == Find(rest, <<" ">>, 0)
  IN sp # -1 =>
       LET dv == DirectiveValue(Drop(rest, sp + 1))
       IN /\ ~dv.raised
          /\ Lower(Take(rest, sp)) = <<"p","y","t","h","o","n","_","i","m","p","o","r","t">> => IsModuleName(dv.value)

IsSkipped(raw) == Strip(raw) = <<>> \/ StartsWith(Strip(raw), S_comment)

IsPrefixed(raw) == StartsWith(LStrip(raw), S_py) \/ GuestBranch(raw) # 0

WellFormedLine(raw) ==
  \/ IsSkipped(raw)
  \/ StartsWith(Strip(raw), <<"#">>) /\ DirectiveIsValid(Strip(raw))
  \/ IsPrefixed(raw)

\* C4: screening is advisory.  parse_lf_source raises for nothing but an
\* unmatched directive quote or an invalid directive identifier; on a
\* source whose lines are all well-formed it returns a model, whatever
\* denylisted pattern the text contains.
C4_ScreeningAdvisory ==
  /\ p_pc = "error" => p_error \in {"quote", "module"}
  /\ (ParseEnded /\ \A k \in 1..Len(SourceText) : WellFormedLine(SourceText[k])) => p_pc = "done"

(***************************************************************************)
(* Properties of LFSecurity (SpecScreen)                                   *)
(***************************************************************************)
\* C5: under the strict policy any finding is fatal.  A screener of level
\* STRICT never returns from validate_code with findings (the fragment is
\* rejected); a screener of another level returns them in its report.
C5_StrictFindingsFatal ==
  \A k \in 1..Len(s_calls) :
    s_calls[k].outcome = "returned" =>
      IF level = "STRICT"
      THEN s_calls[k].result.issue_count = 0
      ELSE s_calls[k].result.is_valid <=> s_calls[k].result.issue_count = 0

(***************************************************************************)
(* Properties of the two merge stages (SpecMerge, SpecPipeline)            *)
(***************************************************************************)
\* the units of the merger's output, as ranges of its input: merged block
\* k is made of the input blocks UnitFirst(k)..UnitLast(k) (1-based)
HasLine(bs, ln) == \E q \in 1..Len(bs) : bs[q].line = ln

IndexOfLine(bs, ln) == CHOOSE q \in 1..Len(bs) : bs[q].line = ln

UnitFirst(k) == IndexOfLine(m_in, merged_blocks[k].line)

UnitLast(k) ==
  IF k < Len(merged_blocks) THEN UnitFirst(k + 1) - 1 ELSE m_i

MergedFromInput ==
  \A k \in 1..Len(merged_blocks) : HasLine(m_in, merged_blocks[k].line)

\* the end rule in the words of C6: the unit whose blocks so far are
\* bs[..j] with the text full_content ends before block j+1 when that block
\* is no deeper than the base, is not empty, is no comment, and the last
\* line of full_content does not leave a bracket or a continuation open
RECURSIVE StatedUnitEnd(_, _, _, _)
StatedUnitEnd(bs, j, base_indent, full_content) ==
  IF ~LookaheadContinues(bs, j) THEN j
  ELSE LET next_content == bs[j + 1].content
           cleaned == _clean_python_code(next_content)
       IN IF BlockEnds(next_content, cleaned, base_indent,
                       _is_in_multiline_structure(full_content))
          THEN j
          ELSE StatedUnitEnd(bs, j + 1, base_indent, full_content \o <<NL>> \o cleaned)

\* C6: in _merge_python_blocks a unit that started with base indentation b
\* ends at the first following py block that is indented <= b, non-empty
\* and no comment while the last line accumulated so far does not end with
\* ',', '[', '{', '(' or a backslash; a bracket that was open earlier in
\* the unit and is closed keeps nothing inside the unit.
C6_UnitEndRule ==
  /\ MergedFromInput
  /\ \A k \in 1..Len(merged_blocks) :
       LET head == m_in[UnitFirst(k)]
       IN (head.type = "py" /\ StartsUnit(head.content)) =>
            UnitLast(k) = StatedUnitEnd(m_in, UnitFirst(k), LeadWS(head.content),
                                        _clean_python_code(head.content))

\* C7: a line of another language ends the lookahead of both merge stages.
\* parse_lf_source appends no line that carries a guest prefix to a py
\* unit, at whatever indentation the line stands; every unit of
\* _merge_python_blocks is made of py blocks only, and a guest block
\* passes through as it is.
C7_GuestEndsLookahead ==
  /\ \A a \in absorbed : GuestBranch(lines[a]) = 0
  /\ MergedFromInput
  /\ \A k \in 1..Len(merged_blocks) :
       IF merged_blocks[k].type = "py"
       THEN \A q \in UnitFirst(k)..UnitLast(k) : m_in[q].type = "py"
       ELSE UnitLast(k) = UnitFirst(k) /\ merged_blocks[k] = m_in[UnitFirst(k)]

\* the block keywords of C8
StartsWithBlockKeyword(content_stripped) ==
  \/ StartsWith(content_stripped, <<"d","e","f"," ">>)
  \/ StartsWith(content_stripped, <<"c","l","a","s","s"," ">>)
  \/ StartsWith(content_stripped, <<"i","f"," ">>)
  \/ StartsWith(content_stripped, <<"f","o","r"," ">>)
  \/ StartsWith(content_stripped, <<"w","h","i","l","e"," ">>)
  \/ StartsWith(content_stripped, <<"w","i","t","h"," ">>)
  \/ StartsWith(content_stripped, <<"t","r","y",":">>)

\* the source opens with a py. line at the margin whose content starts
\* with a block keyword
OpensWithBlock ==
  /\ Len(SourceText) >= 1
  /\ StartsWith(SourceText[1], S_py)
  /\ StartsWithBlockKeyword(Strip(Drop(SourceText[1], 3)))

\* the first line after line 1 that is at the margin and neither blank
\* nor a comment (one past the end when there is none)
FirstMarginLine ==
  LET stops == {k \in 2..Len(SourceText) :
                  ~IsSkipped(SourceText[k]) /\ LeadWS(SourceText[k]) = 0}
  IN IF stops = {} THEN Len(SourceText) + 1 ELSE Min(stops)

\* what C8 says of the fragments of such a source
BlockUnitMerged ==
  /\ Len(code_blocks) >= 1
  /\ code_blocks[1].line = 1 /\ code_blocks[1].type = "py"
  /\ \A k \in 2..(FirstMarginLine - 1) :
       (~IsSkipped(SourceText[k]) /\ GuestBranch(SourceText[k]) = 0) =>
          /\ k \in absorbed
          /\ \A q \in 1..Len(code_blocks) : code_blocks[q].line # k
  /\ (FirstMarginLine <= Len(SourceText) /\ StartsWith(SourceText[FirstMarginLine], S_py)) =>
       /\ Len(code_blocks) >= 2
       /\ code_blocks[2].line = FirstMarginLine /\ code_blocks[2].type = "py"
       /\ StartsWith(code_blocks[2].content, Drop(SourceText[FirstMarginLine], 3))

\* C8: merge correctness of parse_lf_source.  A py. line at indentation 0
\* whose content starts with a block keyword becomes one fragment that
\* absorbs every following py line of indentation > 0, blank and //
\* comment lines being skipped without ending the unit; the first py line
\* at indentation 0 ends it and starts the next fragment.
C8_MergeCorrectness ==
  (ParseEnded /\ OpensWithBlock) => (p_pc = "done" /\ BlockUnitMerged)

\* the same of the runs in which parse_lf_source returns
C8_MergeCorrectnessWhenReturned ==
  (p_pc = "done" /\ OpensWithBlock) => BlockUnitMerged

\* a returned run in which the unit skipped a line, absorbed a line or
\* was ended by a py line at the margin
C8_UnitRun ==
  /\ p_pc = "done" /\ OpensWithBlock /\ absorbed # {}
  /\ FirstMarginLine <= Len(SourceText) /\ StartsWith(SourceText[FirstMarginLine], S_py)

PrefixOf(type) ==
  IF type = "py" THEN S_py
  ELSE GuestPrefixes[CHOOSE g \in 1..Len(GuestPrefixes) : GuestPrefixes[g].type = type].prefix

\* C9, for parse_lf_source: the fragments have strictly increasing 'line'
\* values, each the 1-based number of the physical line its unit starts
\* with (the line carries the fragment's prefix and the content starts
\* with the text after it), and an absorbed line, which lies between the
\* line of its unit and the line of the next fragment, is no fragment's
\* line.
C9_ParseOrder ==
  /\ \A k \in 1..Len(code_blocks) :
       LET b == code_blocks[k]
       IN /\ b.line \in 1..Len(lines)
          /\ StartsWith(LStrip(lines[b.line]), PrefixOf(b.type))
          /\ StartsWith(b.content, Drop(LStrip(lines[b.line]), Len(PrefixOf(b.type))))
          /\ b.line \notin absorbed
          /\ k > 1 => code_blocks[k - 1].line < b.line
  /\ \A a \in absorbed :
       \E k \in 1..Len(code_blocks) :
         /\ code_blocks[k].line < a
         /\ k < Len(code_blocks) => a < code_blocks[k + 1].line

\* the cleaned contents of the input blocks s..e, joined by newlines
RECURSIVE JoinedContents(_, _, _)
JoinedContents(bs, s, e) ==
  IF s > e THEN <<>>
  ELSE IF s = e THEN _clean_python_code(bs[s].content)
  ELSE _clean_python_code(bs[s].content) \o <<NL>> \o JoinedContents(bs, s + 1, e)

\* C9, for _merge_python_blocks: the output starts with the first input
\* block, its 'line' values rise strictly, and each merged block is made
\* of the input blocks from the one whose 'line' it keeps up to the one
\* before the next merged block: no input block is emitted twice or inside
\* two units.
C9_MergeOrder ==
  /\ MergedFromInput
  /\ Len(merged_blocks) > 0 => UnitFirst(1) = 1
  /\ \A k \in 1..Len(merged_blocks) :
       /\ k > 1 => merged_blocks[k - 1].line < merged_blocks[k].line
       /\ UnitFirst(k) <= UnitLast(k)
       /\ merged_blocks[k].type = m_in[UnitFirst(k)].type
       /\ IF merged_blocks[k].type = "py"
          THEN merged_blocks[k].content = JoinedContents(m_in, UnitFirst(k), UnitLast(k))
          ELSE merged_blocks[k] = m_in[UnitFirst(k)] /\ UnitLast(k) = UnitFirst(k)
  /\ m_pc = "done" => m_i = Len(m_in)

\* C9: fragment order is source order through both stages.
C9_FragmentOrder == C9_ParseOrder /\ C9_MergeOrder

\* a source whose unit absorbed a line in the parser and whose blocks the
\* merger then merged
C9_MergedTwice ==
  /\ p_pc = "done" /\ m_pc = "done"
  /\ absorbed # {}
  /\ Len(code_blocks) >= 2
  /\ Len(merged_blocks) >= 1 /\ Len(merged_blocks) < Len(code_blocks)

\* the lines of C10: blank, comment, or a prefixed code line that starts
\* no multi-line unit
IndependentLine(raw) ==
  \/ IsSkipped(raw)
  \/ /\ ~StartsWith(Strip(raw), <<"#">>)
     /\ IsPrefixed(raw)
     /\ StartsWith(LStrip(raw), S_py) => ~is_multiline_structure(Strip(Drop(LStrip(raw), 3)))

IndependentSource ==
  \A k \in 1..Len(SourceText) : IndependentLine(SourceText[k])

\* one fragment per code line of ls[k..], in order
RECURSIVE OneFragmentPerLine(_, _)
OneFragmentPerLine(ls, k) ==
  IF k > Len(ls) THEN <<>>
  ELSE (IF IsSkipped(ls[k]) THEN <<>>
        ELSE IF StartsWith(LStrip(ls[k]), S_py)
        THEN <<Block(k, "py", Drop(LStrip(ls[k]), 3))>>
        ELSE LET g == GuestPrefixes[GuestBranch(ls[k])]
             IN <<Block(k, g.type, Drop(LStrip(ls[k]), Len(g.prefix)))>>)
       \o OneFragmentPerLine(ls, k + 1)

\* C10: the order invariant.  A source of N prefixed code lines of which
\* none starts a multi-line unit parses to exactly N fragments; the k-th
\* has the tag of the k-th code line, the text after its prefix as content
\* and the line's own physical number as 'line'; blank and comment lines
\* count in the numbers and give no fragment.
C10_OrderInvariant ==
  (ParseEnded /\ IndependentSource) =>
     (p_pc = "done" /\ code_blocks = OneFragmentPerLine(SourceText, 1))

\* the same of the runs in which parse_lf_source returns
C10_OrderInvariantWhenReturned ==
  (p_pc = "done" /\ IndependentSource) => code_blocks = OneFragmentPerLine(SourceText, 1)
(***************************************************************************)
(* Properties of the directives (SpecDirectives)                              *)
(***************************************************************************)
\* the text after the key of the directive on physical line ln
ValuePart(ln) ==
  LET rest == Drop(Strip(lines[ln]), 1)
  IN Drop(rest, Find(rest, <<" ">>, 0) + 1)

\* the character at 1-based position k of s stands after a backslash
Escaped(s, k) == k > 1 /\ s[k - 1] = "\\"

\* the value the directive grammar gives to the text after the key: the
\* span to the next unescaped matching quote, or the text before the first
\* unescaped // marker, trimmed
StatedValue(value) ==
  IF StartsWith(value, <<"\"">>) \/ StartsWith(value, <<"'">>)
  THEN LET ends == {k \in 2..Len(value) : value[k] = value[1] /\ ~Escaped(value, k)}
       IN IF ends = {} THEN <<>> ELSE SubSeq(value, 2, Min(ends) - 1)
  ELSE LET marks == {k \in 1..Len(value) : OccursAt(value, S_comment, k) /\ ~Escaped(value, k)}
       IN IF marks = {} THEN Strip(value) ELSE Strip(Take(value, Min(marks) - 1))

\* the directives of the model: every entry of every key
StoredDirectives ==
  UNION {{[key |-> key, value |-> directives[key][n].value, line |-> directives[key][n].line] :
            n \in 1..Len(directives[key])} : key \in DOMAIN directives}

\* C11: directive value extraction.  The value stored for a directive is
\* the text between the opening quote and the next unescaped matching
\* quote of its line (any // inside kept) when the text after the key
\* starts with a quote character, and otherwise the text before the first
\* unescaped // marker, trimmed.
C11_DirectiveValue ==
  \A d \in StoredDirectives : d.value = StatedValue(ValuePart(d.line))

\* the same of the directives whose line holds no backslash
C11_DirectiveValueUnescaped ==
  \A d \in StoredDirectives :
    (\A k \in 1..Len(ValuePart(d.line)) : ValuePart(d.line)[k] # "\\") =>
       d.value = StatedValue(ValuePart(d.line))

\* a quoted value with a // inside and an unquoted value cut at its //
C11_QuotedAndUnquoted ==
  /\ \E d \in StoredDirectives : d.value = <<"a"," ","/","/"," ","b">>
  /\ \E d \in StoredDirectives : d.value = <<"a">> /\ ValuePart(d.line) = <<"a"," ","/","/"," ","b">>

\* physical line ln is a directive '#key value' whose key is one of keys
\* and whose value is not an identifier
InvalidValueAt(ln, keys) ==
  LET rest == Drop(Strip(lines[ln]), 1)
      sp == Find(rest, <<" ">>, 0)
  IN /\ StartsWith(Strip(lines[ln]), <<"#">>)
     /\ sp # -1
     /\ Lower(Take(rest, sp)) \in keys
     /\ ~DirectiveValue(ValuePart(ln)).raised
     /\ ~IsModuleName(DirectiveValue(ValuePart(ln)).value)

\* no model is returned for a source with such a line, and the error for
\* an identifier names the line of such a directive
InvalidValueFatal(keys) ==
  /\ p_pc = "done" => \A ln \in 1..Len(lines) : ~InvalidValueAt(ln, keys)
  /\ (p_pc = "error" /\ p_error = "module") => InvalidValueAt(i + 1, keys)

\* C12: every directive with a recognized semantic key (python_import,
\* name, author, description) whose value does not match the identifier
\* grammar [A-Za-z_][A-Za-z0-9_.]* makes parse_lf_source fail with a fatal
\* parse error naming the directive's line; no model is returned.
C12_InvalidIdentifierFatal == InvalidValueFatal(RecognizedKeys)

\* the same of the key python_import alone
C12_InvalidModuleNameFatal == InvalidValueFatal({<<"p","y","t","h","o","n","_","i","m","p","o","r","t">>})

\* parse_lf_source has failed on a python_import that is no identifier
C12_ModuleNameRejected == p_pc = "error" /\ p_error = "module"

\* physical line ln has the form '#key value'
IsKeyValueLine(ln) ==
  StartsWith(Strip(lines[ln]), <<"#">>) /\ Find(Drop(Strip(lines[ln]), 1), <<" ">>, 0) # -1

KeyOf(ln) ==
  LET rest == Drop(Strip(lines[ln]), 1) IN Take(rest, Find(rest, <<" ">>, 0))

\* the returned model holds a directive for each '#key value' line whose
\* key passes the test, and the entries of a key are in source order
DirectivesKept(keep(_)) ==
  p_pc = "done" =>
    /\ \A ln \in 1..Len(lines) :
         (IsKeyValueLine(ln) /\ keep(KeyOf(ln))) =>
            \E d \in StoredDirectives :
               d.key = KeyOf(ln) /\ d.line = ln /\ d.value = DirectiveValue(ValuePart(ln)).value
    /\ \A key \in DOMAIN directives : \A a, b \in 1..Len(directives[key]) :
         a < b => directives[key][a].line < directives[key][b].line

\* C13: every physical line that starts with '#' and has the form
\* '#key value' yields a directive {key, value, line} in the parsed model,
\* whatever the key is; directives that share a key are all kept, in
\* source order.
C13_EveryDirectiveKept == DirectivesKept(LAMBDA key : TRUE)

\* the same of the keys python_import, name, author and description
C13_RecognizedDirectivesKept == DirectivesKept(LAMBDA key : Lower(key) \in RecognizedKeys)

\* a returned model with two directives under one key
C13_SharedKey == p_pc = "done" /\ \E key \in DOMAIN directives : Len(directives[key]) >= 2

(***************************************************************************)
(* Properties of compiling and packaging (SpecCompile)                     *)
(***************************************************************************)
\* create_package has written the archive
Packed == k_pc \in {"packed", "loaded"}

\* the source holds a directive line with the key disable_multifile
RequestsMinimalMode ==
  \E ln \in 1..Len(lines) : StartsWith(Strip(lines[ln]), <<"#","d","i","s","a","b","l","e","_","m","u","l","t","i","f","i","l","e"," ">>)

\* C14: a directive can request minimal mode.  The archive compiled from
\* a source that contains the directive disable_multifile holds no file of
\* a language: only the manifest, with an empty file list, and the
\* intermediate document.
C14_MinimalModeByDirective ==
  (Packed /\ RequestsMinimalMode) =>
     /\ package.source_files = <<>>
     /\ package.manifest.files = <<>>

\* no archive that main compiles is the minimal one
C14_NeverMinimal ==
  Packed => "multifile_disabled" \notin DOMAIN package.manifest.metadata

\* the languages with at least one fragment, in the order of their first
\* fragment being of no account
LanguagesUsed == {code_blocks[n].type : n \in 1..Len(code_blocks)}

\* what C15 says of the archive
OneFilePerLanguage ==
  /\ \A type \in LanguagesUsed :
       \E n \in 1..Len(package.source_files) :
          /\ package.source_files[n].name = FileOf(type)
          /\ package.source_files[n].content = JoinedContent(BlocksOf(code_blocks, type))
          /\ \A q \in 1..Len(package.source_files) :
               package.source_files[q].name = FileOf(type) => q = n
  /\ Len(package.source_files) = Cardinality(LanguagesUsed)
  /\ Len(package.manifest.files) = Len(package.source_files)
  /\ \A n \in 1..Len(package.source_files) :
       package.manifest.files[n].name = package.source_files[n].name
  /\ Len(package.manifest.execution_order) = Len(code_blocks)
  /\ \A n \in 1..Len(code_blocks) :
       /\ package.manifest.execution_order[n].line = code_blocks[n].line
       /\ package.manifest.execution_order[n].type = code_blocks[n].type
       /\ \E q \in 1..Len(package.manifest.files) :
            package.manifest.files[q].name = package.manifest.execution_order[n].file

C15_AlwaysPackaged == k_pc # "failed"

C16_PackagePreservesProgram ==
  /\ k_pc # "idle" =>
       /\ lsf_content.program = parsed_data
       /\ DOMAIN lsf_content = {"format_version", "metadata", "program"}
  /\ Packed => json_loads(package.program_lsf).program = parsed_data
  /\ m_pc # "idle" => m_in = code_blocks

\* a run from an archive, merged to its end, of a program with a quote in
\* a fragment and a backslash in a directive
C16_RunFromArchive ==
  /\ k_pc = "loaded" /\ m_pc = "done"
  /\ \E n \in 1..Len(code_blocks) : Contains(code_blocks[n].content, <<"\"">>)
  /\ \E d \in StoredDirectives : Contains(d.value, <<"\\">>)

(***************************************************************************)
(* Properties of repeated screening (SpecRescreen)                         *)
(***************************************************************************)
\* the dict call k returned, as it is now: its 'issues' is a list object
CurrentResult(k) == [s_calls[k].result EXCEPT !.issues = lists[s_calls[k].issues_id]]

SameInput(j, k) == s_calls[j].code = s_calls[k].code /\ s_calls[j].language = s_calls[k].language

\* C17: screener idempotence.  Two calls of validate_code on one LFSecurity
\* object with the same (content, language), whatever calls were made in
\* between, end alike and return identical findings (the same issues in
\* the same order, the same is_valid and issue_count), and the dict an
\* earlier call returned is not changed by a later call.
C17_ScreenerIdempotent ==
  /\ \A j, k \in 1..Len(s_calls) :
       SameInput(j, k) =>
          /\ s_calls[j].outcome = s_calls[k].outcome
          /\ s_calls[j].outcome = "returned" => CurrentResult(j) = CurrentResult(k)
  /\ \A k \in 1..Len(s_calls) :
       s_calls[k].outcome = "returned" => CurrentResult(k) = s_calls[k].result

\* the same input screened twice with findings, another input with other
\* findings in between
C17_ScreenedAgain ==
  /\ Len(s_calls) = 3
  /\ \A k \in 1..3 : s_calls[k].outcome = "returned"
  /\ SameInput(1, 3) /\ ~SameInput(1, 2)
  /\ s_calls[1].result.issue_count > 0
  /\ s_calls[2].result.issues # s_calls[1].result.issues

(***************************************************************************)
(* Properties of the printf fast path (SpecPrintf)                         *)
(***************************************************************************)
\* the fragment took the fast path and execute_cpp has returned
FastPathReturned == x_pc = "returned" /\ TakesFastPath(CppCode(cpp_code))

PrintfText == Strip(PrintfContent(CppCode(cpp_code)))

\* the text after the closing quote of the format string
AfterFormat == LStrip(Drop(PrintfText, Find(PrintfText, <<"\"">>, 1) + 1))

\* the call has a literal format string and arguments
HasArguments ==
  /\ StartsWith(PrintfText, <<"\"">>)
  /\ Find(PrintfText, <<"\"">>, 1) # -1
  /\ StartsWith(AfterFormat, <<",">>)

PrintfFormat == SubSeq(PrintfText, 2, Find(PrintfText, <<"\"">>, 1))

\* the values of the arguments, as text
ArgumentValues ==
  LET args == _split_printf_params(Strip(Drop(AfterFormat, 1)))
  IN [k \in 1..Len(args) |-> _evaluate_expression_simple(args[k], variables, functions).text]

\* format with its placeholders replaced in order by the values from the
\* k-th on: the text a value brings in is not scanned again
RECURSIVE InOrder(_, _, _)
InOrder(format, values, k) ==
  IF k > Len(values) \/ FirstPlaceholder(format) = 0 THEN format
  ELSE Take(format, FirstPlaceholder(format) - 1) \o values[k] \o
       InOrder(Drop(format, PlaceholderEnd(format, FirstPlaceholder(format))), values, k + 1)

\* C18: in the inline printf fast path each format placeholder is replaced
\* in order by an evaluated argument: the output is the format string with
\* the k-th placeholder of the original format string replaced by the
\* value of the k-th argument, whatever text the values contain (a value
\* that itself holds %d or %s included); with x = 5, printf("val=%d", x)
\* prints val=5.
C18_PlaceholdersInOrder ==
  (FastPathReturned /\ HasArguments) => stdout = InOrder(PrintfFormat, ArgumentValues, 1)

\* the same of the calls none of whose values holds a '%'
C18_PlainValuesInOrder ==
  (FastPathReturned /\ HasArguments /\
     \A k \in 1..Len(ArgumentValues) : ~Contains(ArgumentValues[k], <<"%">>)) =>
        stdout = InOrder(PrintfFormat, ArgumentValues, 1)

\* with x = 5, printf("val=%d", x) has printed val=5
C18_ValFive ==
  /\ FastPathReturned
  /\ cpp_code = <<"p","r","i","n","t","f","(","\"","v","a","l","=","%","d","\"",","," ","x",")">>
  /\ "x" \in DOMAIN variables /\ variables["x"] = "5"
  /\ stdout = <<"v","a","l","=","5">>

\* C19: the inline fast path never spawns a process.  While a cpp
\* fragment that execute_cpp routes to the printf fast path runs, no
\* external program is started, neither by the branch itself nor by the
\* evaluation of an argument against the snapshot of the state.
C19_FastPathSpawnsNothing ==
  (x_pc \in {"returned", "raised"} /\ TakesFastPath(CppCode(cpp_code))) => spawned = <<>>

\* the same of the fast path with arguments that name no object of the state
C19_PlainArgumentsSpawnNothing ==
  (x_pc \in {"returned", "raised"} /\ TakesFastPath(CppCode(cpp_code)) /\
     ~Contains(cpp_code, <<"c","p","p",".","e","x","e","c","u","t","e">>)) => spawned = <<>>

(***************************************************************************)
(* Properties of the end of a run (Spec)                                   *)
(***************************************************************************)
\* control has left execute(): it returned, or an exception left it
LeftExecute == pc \in {"done", "interrupted"}

\* C20: janitor cleanup runs unconditionally at the end of a run.  On every
\* way execute() stops after fragments have started executing, a user
\* interrupt raised while a fragment executes included, _cleanup_temp_files
\* has run before control leaves execute(): no path is left on the list of
\* temporary files.
C20_CleanupBeforeLeaving == LeftExecute => temp_files = <<>>

\* the same of the runs in which execute() returns
C20_CleanupBeforeReturn == pc = "done" => temp_files = <<>>

\* a run that was interrupted after a fragment had put a file on the list
C20_InterruptedWithFiles == pc = "interrupted" /\ temp_files # <<>>

(***************************************************************************)
(* Properties of the screener's result (SpecScreen)                        *)
(***************************************************************************)
\* C30: validate_code is total.  For every code string and every language
\* tag it returns a result record and never raises, py code with a relative
\* import without a module name (from . import x) included.
C30_ValidateCodeTotal ==
  \A k \in 1..Len(s_calls) : s_calls[k].outcome = "returned"

\* the same of the calls whose code is not py code that imports from '.'
C30_TotalWithoutBareRelativeImport ==
  \A k \in 1..Len(s_calls) :
     (s_calls[k].language # "py" \/ ~Contains(s_calls[k].code, <<"f","r","o","m"," ","."," ","i","m","p","o","r","t">>)) =>
        s_calls[k].outcome = "returned"

\* the relative import screened under another language tag returns
C30_RelativeImportAsJava ==
  \E k \in 1..Len(s_calls) :
     /\ s_calls[k].code = <<"f","r","o","m"," ","."," ","i","m","p","o","r","t"," ","x">> /\ s_calls[k].language = "java"
     /\ s_calls[k].outcome = "returned"

(***************************************************************************)
(* Properties of assignment lines in the merger (SpecMerge)                *)
(***************************************************************************)
Opening == {"[", "{", "("}
Closing == {"]", "}", ")"}

\* s opens more brackets than it closes
LeavesBracketOpen(s) ==
  Cardinality({k \in 1..Len(s) : s[k] \in Opening}) >
  Cardinality({k \in 1..Len(s) : s[k] \in Closing})

\* a line that is an assignment and opens no block
IsAssignmentLine(content_stripped) ==
  Contains(content_stripped, <<"=">>) /\ ~is_block_start(content_stripped)

RightSide(content_stripped) ==
  Strip(Drop(content_stripped, Find(content_stripped, <<"=">>, 0) + 1))

\* merged block k starts with an assignment whose brackets are all closed
\* on its line
StartsWithClosedAssignment(k) ==
  LET first == Strip(_clean_python_code(m_in[UnitFirst(k)].content))
  IN /\ m_in[UnitFirst(k)].type = "py"
     /\ IsAssignmentLine(first)
     /\ ~LeavesBracketOpen(RightSide(first))

\* C26: in _merge_python_blocks an assignment line starts a multi-line unit
\* only when its right side opens a bracket that is not closed on the same
\* line: an assignment whose brackets are all closed on that line
\* (x = [1] + y) is emitted as a single-line fragment and absorbs no
\* following py line.
C26_ClosedAssignmentIsSingle ==
  MergedFromInput =>
    \A k \in 1..Len(merged_blocks) :
       StartsWithClosedAssignment(k) => UnitLast(k) = UnitFirst(k)

\* the same of the assignments whose right side does not start with a bracket
C26_PlainAssignmentIsSingle ==
  MergedFromInput =>
    \A k \in 1..Len(merged_blocks) :
       (StartsWithClosedAssignment(k) /\
          RightSide(Strip(_clean_python_code(m_in[UnitFirst(k)].content)))[1] \notin Opening) =>
             UnitLast(k) = UnitFirst(k)

\* an assignment that leaves its bracket open has absorbed the next line
C26_OpenBracketAbsorbs ==
  /\ m_pc = "done" /\ Len(merged_blocks) = 1 /\ Len(m_in) = 2
  /\ m_in[1].content = <<"x","=","[">> /\ m_in[2].content = <<"]">>

(***************************************************************************)
(* Properties of runs that are not interrupted (SpecLive)                  *)
(***************************************************************************)
SummaryReached == \E k \in 1..Len(log) : log[k].ev = "summary"

\* C21: the dispatcher never hangs.  When every call of an external
\* program returns or times out within its bound, execute() reaches the
\* end-of-run summary for every program: the execution of every fragment
\* of every language, py fragments executed in-process included, is
\* bounded.
C21_SummaryReached == <>SummaryReached

\* the same of the programs without py fragments
C21_GuestProgramsEnd ==
  (\A k \in 1..Len(blocks) : blocks[k].type # "py") => <>SummaryReached

\* a run that is inside an exec that does not end
C21_InsideExec == pc = "exec" /\ idx < Len(blocks)

(***************************************************************************)
(* Properties of execute_python (SpecPython)                               *)
(***************************************************************************)
\* C28: after any sequence of execute_python calls no name is a key of
\* both variables and functions: when a fragment rebinds a name from a
\* callable to a value that is not callable (or the reverse), the name is
\* held only by the map that matches its current value.
C28_OneMapPerName == DOMAIN variables \cap DOMAIN functions = {}

\* every name a fragment that ended left bound in env is held, with its
\* value, by the map that matches the value
C28_CurrentValueHeld ==
  [][\A name \in DOMAIN last_env' :
        (last_env' # last_env) =>
           IF callable(last_env'[name])
           THEN name \in DOMAIN functions' /\ functions'[name] = last_env'[name]
           ELSE name \in DOMAIN variables' /\ variables'[name] = last_env'[name]]_vars

\* a name bound to a function and then to data
C28_Rebound ==
  /\ "n" \in DOMAIN functions
  /\ "n" \in DOMAIN variables /\ variables["n"] = "1"

\* the step is a call of execute_python that raised
FragmentRaised ==
  /\ Len(log') = Len(log) + 1
  /\ log'[Len(log')].ev = "block" /\ log'[Len(log')].outcome = "raised"

\* C29: a py fragment that raises commits nothing.  When exec of the
\* fragment fails, the key sets of variables and functions and the value
\* bound to every key are what they were before the call, also for names
\* the fragment assigned before the failing statement.
C29_RaiseCommitsNothing ==
  [][FragmentRaised => (variables' = variables /\ functions' = functions)]_vars

\* the same of the fragments that store nothing through globals()
C29_PlainAssignmentsNotCommitted ==
  [][(FragmentRaised /\ ~Contains(blocks[idx + 1].content, S_globals)) =>
        (variables' = variables /\ functions' = functions)]_vars

\* n=1; 1/0 has raised and n is not bound
C29_AssignedThenRaised ==
  /\ Len(log) = 1 /\ log[1].outcome = "raised"
  /\ blocks[1].content = <<"n","=","1",";"," ","1","/","0">>
  /\ "n" \notin DOMAIN variables

(***************************************************************************)
(* Properties of the declarations of a guest program (SpecDeclare)         *)
(***************************************************************************)
SimpleTypes == {"bool", "int", "float", "str"}

\* a non-empty flat list whose elements all have the same simple type
HomogeneousList(v) ==
  /\ v.type = "list" /\ Len(v.items) > 0
  /\ v.items[1].type \in SimpleTypes
  /\ \A k \in 1..Len(v.items) : v.items[k].type = v.items[1].type

Representable(v) == v.type \in SimpleTypes \/ HomogeneousList(v)

\* a line that declares something (a comment line does not)
IsDeclaration(text) == ~StartsWith(text, S_comment)

Declared ==
  d_pc = "returned" /\ \E k \in 1..Len(variable_declarations) :
                          IsDeclaration(variable_declarations[k])

\* C27: when a guest program is generated for C++, a state value is
\* declared only if it is a bool, an int, a float, a string, or a
\* non-empty flat list whose elements all have the same simple type;
\* callables, modules, objects and heterogeneous lists (a list mixing int
\* and float, or bool and int) produce no declaration.
C27_OnlyRepresentableDeclared == Declared => Representable(var_value)

\* the same of the values that are not lists
C27_OnlySimpleScalarsDeclared ==
  (Declared /\ var_value.type # "list") => var_value.type \in SimpleTypes

\* a list of two ints declared as a vector
C27_IntListDeclared ==
  /\ d_pc = "returned" /\ var_name = "n"
  /\ var_value = PyList(<<Scalar("int", <<"1">>), Scalar("int", <<"1">>)>>)
  /\ variable_declarations = <<<<"v","e","c","t","o","r","<","d","e","c","l","t","y","p","e","(","1",")",">"," ","n"," ","="," ","{","1",","," ","1","}",";">>>>

(***************************************************************************)
(* Properties of the splitter of printf arguments (SpecPrintf)             *)
(***************************************************************************)
\* the text _split_printf_params is called with
ParamsText == Strip(Drop(AfterFormat, 1))

\* the scan of C25: as SplitStep, but inside a quoted substring a
\* backslash takes the next character with it, so an escaped quote does
\* not end the substring
TopLevelStep(st, char) ==
  IF st.in_string /\ st.escaped THEN [st EXCEPT !.escaped = FALSE, !.current_param = Append(@, char)]
  ELSE IF st.in_string /\ char = "\\"
  THEN [st EXCEPT !.escaped = TRUE, !.current_param = Append(@, char)]
  ELSE [SplitStep(st, char) EXCEPT !.escaped = FALSE]

RECURSIVE TopLevelLoop(_, _, _)
TopLevelLoop(s, k, st) ==
  IF k > Len(s) THEN st ELSE TopLevelLoop(s, k + 1, TopLevelStep(st, s[k]))

TopLevelScan(s) ==
  TopLevelLoop(s, 1, [params |-> <<>>, current_param |-> <<>>, paren_count |-> 0,
                      bracket_count |-> 0, brace_count |-> 0, in_string |-> FALSE,
                      string_char |-> "", escaped |-> FALSE])

\* brackets balanced and string literals terminated
WellFormedArguments(s) ==
  LET st == TopLevelScan(s)
  IN ~st.in_string /\ st.paren_count = 0 /\ st.bracket_count = 0 /\ st.brace_count = 0

\* the parameters between the top-level commas, in order, trimmed
TopLevelParams(s) == LastParam(TopLevelScan(s))

SplitterCalled == x_pc # "call" /\ TakesFastPath(CppCode(cpp_code)) /\ HasArguments

\* C25: _split_printf_params splits its input at exactly the commas that
\* are top-level: for an argument string with balanced brackets and
\* terminated string literals, a comma inside (), [], {} or inside a
\* quoted substring (one that holds an escaped quote included) never
\* separates two parameters, every comma outside them does, and the
\* parameters are returned in order, trimmed.
C25_SplitAtTopLevelCommas ==
  (SplitterCalled /\ WellFormedArguments(ParamsText)) =>
     _split_printf_params(ParamsText) = TopLevelParams(ParamsText)

\* the same of the argument strings without a backslash
C25_SplitWithoutEscapes ==
  (SplitterCalled /\ WellFormedArguments(ParamsText) /\ ~Contains(ParamsText, <<"\\">>)) =>
     _split_printf_params(ParamsText) = TopLevelParams(ParamsText)

\* a comma inside parentheses and one outside: two parameters
C25_NestedComma ==
  /\ SplitterCalled
  /\ ParamsText = <<"f","(","1",",","2",")",","," ","5">>
  /\ _split_printf_params(ParamsText) = <<<<"f","(","1",",","2",")">>, <<"5">>>>
  /\ stdout = <<"f","(","1",",","2",")"," ","5">>

(***************************************************************************)
(* Properties of execute_cpp towards the state (SpecPrintf)                *)
(***************************************************************************)
\* the step is a call of execute_cpp
CppExecuted == x_pc = "call" /\ x_pc' # "call"

\* C22: guest-language state flows host to guest only.  Executing a guest
\* fragment (here a cpp fragment, on the fast path or the full path),
\* whether it succeeds or fails, leaves variables and functions exactly as
\* they were before the call; only execute_python changes them.
C22_GuestLeavesState ==
  [][CppExecuted => (variables' = variables /\ functions' = functions)]_vars

\* the same of the fragments that do not name the runtime object's
\* execute_python
C22_PlainGuestLeavesState ==
  [][(CppExecuted /\ ~Contains(cpp_code, <<"c","p","p",".","e","x","e","c","u","t","e","_","p","y","t","h","o","n">>)) =>
        (variables' = variables /\ functions' = functions)]_vars

\* printf("val=%d", x) has read x = 5 and left it
C22_ReadOnly ==
  /\ x_pc = "returned" /\ cpp_code = <<"p","r","i","n","t","f","(","\"","v","a","l","=","%","d","\"",","," ","x",")">> /\ stdout = <<"v","a","l","=","5">>
  /\ variables["x"] = "5" /\ functions = EmptyMap

(***************************************************************************)
(* Properties of the executors' diagnostics (Spec)                         *)
(***************************************************************************)
GuestTypes == {"cpp", "js", "java", "php", "rust"}

\* the failure categories: toolchain not found, compile failure,
\* execution timeout, output on stderr
Category(outcome) ==
  CASE outcome = "no_toolchain" -> "not_found"
    [] outcome = "compile_fail" -> "compile"
    [] outcome \in {"compile_timeout", "run_timeout"} -> "timeout"
    [] outcome = "stderr" -> "stderr"
    [] OTHER -> "none"

\* the last call execute_block made was a guest executor's, and it ended in
\* one of the failure categories
GuestFailed ==
  /\ log # <<>> /\ log[Len(log)].ev = "block"
  /\ blocks[log[Len(log)].k].type \in GuestTypes
  /\ Category(log[Len(log)].outcome) # "none"

\* the message names the line of the fragment
LineAttributed(d, line_number) == Contains(d, <<"l","i","n","e"," ">> \o Decimal(line_number))

\* the messages of the last call
LastDiagnostics ==
  Diagnostics(blocks[log[Len(log)].k].type, log[Len(log)].outcome, log[Len(log)].line)

\* the outcomes the executor of a type has
ExecutorOutcomes(type) ==
  IF type \in {"js", "php"} THEN InterpretedOutcomes ELSE CompiledOutcomes

\* the messages the same executor prints in the other categories
OtherDiagnostics ==
  UNION { Diagnostics(blocks[log[Len(log)].k].type, o, log[Len(log)].line) :
            o \in {o \in ExecutorOutcomes(blocks[log[Len(log)].k].type) :
                     Category(o) \notin {"none", Category(log[Len(log)].outcome)}} }

\* C23: every fragment-scoped execution diagnostic is line-attributed.  For
\* each guest executor and each failure category (toolchain not found,
\* compile failure, execution timeout, non-zero exit/stderr) the diagnostic
\* emitted contains the fragment's line number, and the four categories
\* produce distinguishable diagnostics.
C23_DiagnosticsLineAttributed ==
  GuestFailed =>
    /\ LastDiagnostics # {}
    /\ \A d \in LastDiagnostics : LineAttributed(d, log[Len(log)].line)
    /\ LastDiagnostics \cap OtherDiagnostics = {}

\* the part of it the executors keep: a timeout is reported with the line
\* of the fragment, and no two categories share a message
C23_TimeoutsLineAttributed ==
  GuestFailed =>
    /\ LastDiagnostics # {}
    /\ Category(log[Len(log)].outcome) = "timeout" =>
         \A d \in LastDiagnostics : LineAttributed(d, log[Len(log)].line)
    /\ LastDiagnostics \cap OtherDiagnostics = {}

\* the java fragment at line 2 timed out
C23_JavaTimeout ==
  /\ GuestFailed /\ blocks[log[Len(log)].k].type = "java"
  /\ log[Len(log)].outcome = "run_timeout" /\ log[Len(log)].line = 2
  /\ LastDiagnostics = {WarningSign \o <<" "," ","[","J","A","V","A","]"," ","E","x","e","c","u","t","i","o","n"," ","t","i","m","e","o","u","t"," ","a","t"," ","l","i","n","e"," ","2",".">>}

(***************************************************************************)
(* Properties of the command-line tools (SpecCli)                          *)
(***************************************************************************)
\* the command has met a fatal error: the compiler a source that does not
\* parse or an artifact it cannot write, the runtime an artifact it cannot
\* load, lf_main.py a tool that ended with a failure
Fatal ==
  /\ argv.file.given
  /\ \/ /\ argv.tool = "lf-compile.py" /\ argv.file.ext = "lf"
        /\ world.exists /\ world.readable
        /\ ~world.parses \/ ~world.writable \/ ~world.packable
     \/ /\ argv.tool = "lf-run.py" /\ argv.file.ext \in {"lsf", "lfp"}
        /\ ~world.exists \/ ~world.readable
     \/ /\ argv.tool = "lf_main.py"
        /\ \E k \in 1..Len(child_status) : child_status[k] # 0

\* C24: every CLI command that meets a fatal parse, build or run error ends
\* with a non-zero exit status: lf-compile.py on a parse error or an
\* artifact write failure, lf_main.py compile/run/benchmark when the step
\* it drives fails, and lf-run.py when the artifact cannot be loaded.
C24_FatalExitsNonZero ==
  (c_pc = "exited" /\ Fatal) => exit_status # 0

\* the same of lf-compile.py and of lf-run.py on a .lsf file
C24_CompilerExitsNonZero ==
  (/\ c_pc = "exited" /\ Fatal
   /\ \/ argv.tool = "lf-compile.py"
      \/ argv.tool = "lf-run.py" /\ argv.file.ext = "lsf") => exit_status # 0

\* lf-compile.py has met a parse error and ended with status 1
C24_ParseErrorExit ==
  /\ c_pc = "exited" /\ argv.tool = "lf-compile.py" /\ Fatal /\ ~world.parses
  /\ exit_status = 1
====
